---- MODULE Spec2Model ----
\* securefs: the operations layer (namespaces operations and internal) running
\* on the driver's worker threads over the FileTable, the FileBase objects and
\* the directory index.
EXTENDS Integers, Sequences, FiniteSets, TLC

\* ------------------------------------------------------------------ bounds
NThreads == 2
MaxId == 2
MaxHandles == 1
MaxDepth == 2
ConcDepth == 1
MaxFaults == 1

\* --------------------------------------------------------- program constants
S_IFMT == 61440
S_IFREG == 32768
S_IFDIR == 16384
S_IFLNK == 40960
SymlinkPerm == 493
PermMask == 511

root_id == 0

Threads == 1..NThreads
Ids == 0..MaxId
Slots == 1..MaxHandles

REGULAR_FILE == "REGULAR_FILE"
SYMLINK == "SYMLINK"
DIRECTORY == "DIRECTORY"
Types == {REGULAR_FILE, SYMLINK, DIRECTORY}

\* ------------------------------------------------------------ return values
Ok(n) == [e |-> "OK", v |-> n]
Err(e) == [e |-> e, v |-> 0]

\* ------------------------------------------------------------------- paths
SEP == "/"

\* A path is a sequence of characters, a component a non-empty one.
\* split(path, '/'): the non-empty segments between separators, in order.
RECURSIVE SplitFrom(_, _, _)
SplitFrom(s, k, cur) ==
    IF k > Len(s)
    THEN (IF cur = <<>> THEN <<>> ELSE <<cur>>)
    ELSE IF s[k] = SEP
         THEN (IF cur = <<>> THEN <<>> ELSE <<cur>>) \o SplitFrom(s, k + 1, <<>>)
         ELSE SplitFrom(s, k + 1, Append(cur, s[k]))

split(s) == SplitFrom(s, 1, <<>>)

\* ------------------------------------------------------------------- modes
\* mode & ~S_IFMT for a mode below 2^16: the low twelve bits.
ClearFmt(mode) == mode % 4096
FmtOf(mode) == (mode \div 4096) * 4096

mode_for_type(type) ==
    CASE type = REGULAR_FILE -> S_IFREG
      [] type = SYMLINK -> S_IFLNK
      [] type = DIRECTORY -> S_IFDIR


\* ------------------------------------------------------------------- state
VARIABLES
    workers,    \* number of worker threads the driver dispatches on
    readonly,   \* FileTable read-only flag of the mount
    obj,        \* id -> the object's host files: header and content
    table,      \* FileTable: id -> live instance and its reference count
    flock,      \* id -> holder of that FileBase's mutex, 0 when free
    faults,     \* how many more host I/O failures this run may see
    paths,      \* the paths the driver presents to the operations
    fh,         \* driver handle slots: info->fh
    th,         \* per worker thread: position and locals of its operation
    prev,       \* the driver's note of the last call that changed the repository
    host        \* the Windows platform layer under test, apart from the mount

vars == <<workers, readonly, faults, paths, obj, table, flock, fh, th, prev, host>>

\* The platform layer is idle while the operations of the mount are exercised.
NoHost == [k |-> "none"]

\* A FileBase pointer: the object id and the in-memory instance it points at.
NullRef == [null |-> TRUE, id |-> 0, inst |-> 0]
Ref(id, inst) == [null |-> FALSE, id |-> id, inst |-> inst]

NoFile ==
    [present |-> FALSE, type |-> DIRECTORY, nlink |-> 0, mode |-> 0, uid |-> 0,
     gid |-> 0, entries |-> {}, data |-> <<>>, target |-> <<>>]

NoEntry == [present |-> FALSE, inst |-> 0, rc |-> 0, dirty |-> FALSE]

DirEntry(name, id, type) == [name |-> name, id |-> id, type |-> type]

\* Calling context of a worker thread: ctx->uid, ctx->gid.  Every request of a
\* mount comes from the same user.
CtxUid(t) == 1000
CtxGid(t) == 100

\* ------------------------------------------------- Directory (name index)
HasEntry(o, name) == \E e \in o.entries : e.name = name
EntryOf(o, name) == CHOOSE e \in o.entries : e.name = name

\* add_entry: false and no change when the name exists.
AddEntry(o, name, id, type) ==
    IF HasEntry(o, name) THEN o
    ELSE [o EXCEPT !.entries = @ \cup {DirEntry(name, id, type)}]

RemoveEntry(o, name) == [o EXCEPT !.entries = {e \in @ : e.name # name}]

\* ------------------------------------------------------------- FileTable
\* Every pointer to a FileBase held anywhere: guards of the threads, handles.
AllRefs ==
    {th[t].g1 : t \in Threads} \cup {th[t].g2 : t \in Threads}
        \cup {th[t].tmp : t \in Threads} \cup {fh[s] : s \in Slots}

UsedInsts ==
    {r.inst : r \in {x \in AllRefs : ~x.null}}
        \cup {table[i].inst : i \in {j \in Ids : table[j].present}}

\* The address of a newly allocated FileBase: one no live pointer holds.
NewInst == CHOOSE n \in 1..(Cardinality(UsedInsts) + 1) : n \notin UsedInsts

TypeMismatchErr(type) ==
    CASE type = REGULAR_FILE -> "EPERM"
      [] type = SYMLINK -> "EINVAL"
      [] type = DIRECTORY -> "ENOTDIR"

\* open_as(id, type): err # "OK" when it throws.
TableOpenAs(id, type) ==
    IF table[id].present
    THEN IF obj[id].type # type
         THEN [err |-> TypeMismatchErr(type), table |-> table, ref |-> NullRef]
         ELSE [err |-> "OK",
               table |-> [table EXCEPT ![id].rc = @ + 1],
               ref |-> Ref(id, table[id].inst)]
    ELSE IF ~obj[id].present
         THEN [err |-> "ENOENT", table |-> table, ref |-> NullRef]
         ELSE IF obj[id].type # type
              THEN [err |-> TypeMismatchErr(type), table |-> table, ref |-> NullRef]
              ELSE [err |-> "OK",
                    table |-> [table EXCEPT ![id] =
                        [present |-> TRUE, inst |-> NewInst, rc |-> 1, dirty |-> FALSE]],
                    ref |-> Ref(id, NewInst)]

\* create_as(id, type): the host files must not exist.
TableCreateAs(id, type, uid, gid) ==
    IF obj[id].present \/ table[id].present
    THEN [err |-> "EEXIST", table |-> table, obj |-> obj, ref |-> NullRef]
    ELSE [err |-> "OK",
          table |-> [table EXCEPT ![id] =
              [present |-> TRUE, inst |-> NewInst, rc |-> 1, dirty |-> TRUE]],
          obj |-> [obj EXCEPT ![id] =
              [present |-> TRUE, type |-> type, nlink |-> 0,
               mode |-> mode_for_type(type), uid |-> uid, gid |-> gid,
               entries |-> {}, data |-> <<>>, target |-> <<>>]],
          ref |-> Ref(id, NewInst)]

\* close(fb): one reference less; at zero the entry goes, and with nlink == 0
\* the host files go too.
TableClose(r) ==
    IF ~table[r.id].present \/ table[r.id].inst # r.inst
    THEN [table |-> table, obj |-> obj]
    ELSE IF table[r.id].rc > 1
         THEN [table |-> [table EXCEPT ![r.id].rc = @ - 1], obj |-> obj]
         ELSE [table |-> [table EXCEPT ![r.id] = NoEntry],
               obj |-> IF obj[r.id].nlink = 0
                       THEN [obj EXCEPT ![r.id] = NoFile]
                       ELSE obj]

\* ---------------------------------------------------------------- FileBase
\* A header or content mutation leaves the in-memory instance dirty.
Touch(tb, id) == IF tb[id].present THEN [tb EXCEPT ![id].dirty = TRUE] ELSE tb
\* flush(): everything in memory is written out.
Flushed(tb, id) == IF tb[id].present THEN [tb EXCEPT ![id].dirty = FALSE] ELSE tb


\* ------------------------------------------------------------- FileGuard
GuardReleaseKeeps(g) == g

\* FileGuard::release(): the guard gives its pointer up.
GuardRelease(g) == NullRef

ResetClosesNever(g) == FALSE

\* FileGuard::reset(): the old pointer is closed when there is one.
ResetCloses(g) == ~g.null

\* ---------------------------------------------------------------- threads
ThreadInit ==
    [pc |-> "idle", op |-> "none", path |-> <<>>, comps |-> <<>>, i |-> 0, n |-> 0,
     g1 |-> NullRef, g2 |-> NullRef, tmp |-> NullRef, last |-> <<>>,
     id |-> 0, type |-> DIRECTORY, newid |-> 0, slot |-> 0, mode |-> 0,
     flags |-> {}, off |-> 0, size |-> 0, buf |-> <<>>, uid |-> 0, gid |-> 0,
     st |-> 0, arg |-> 0, note |-> "", exc |-> [kind |-> "", logged |-> FALSE],
     pre |-> <<>>, ret |-> Ok(0)]

SetTh(t, r) == th' = [th EXCEPT ![t] = r]

\* Leaving a function: the guards still owned are destroyed, the later first.
NextEpi(r) == IF ResetCloses(r.g2) \/ ResetCloses(r.g1) THEN "ep_close" ELSE "done"

\* COMMON_CATCH_BLOCK: an exception unwinds the guards, then the operation
\* returns minus the error number.
Throw(r, e) ==
    LET q == [r EXCEPT !.ret = Err(e)] IN [q EXCEPT !.pc = NextEpi(q)]

CaughtRaw(out) == [e |-> out, logged |-> FALSE]

\* COMMON_CATCH_BLOCK on what the host threw: minus the error number, logged
\* unless it is an OSException; -EPERM, logged, for an unknown exception.
Caught(out) ==
    CASE out = "IO" -> [e |-> "EIO", logged |-> FALSE]
      [] out = "AUTH_FAIL" -> [e |-> "EIO", logged |-> TRUE]
      [] out = "unknown" -> [e |-> "EPERM", logged |-> TRUE]

\* The host's exception reaches the catch block through the guards.
Raise(r, out) ==
    Throw([r EXCEPT !.exc = [kind |-> out, logged |-> Caught(out).logged]],
          Caught(out).e)

Finish(r, v) ==
    LET q == [r EXCEPT !.ret = v] IN [q EXCEPT !.pc = NextEpi(q)]

\* Outcomes of a call that reaches the host: while the run has failures left
\* it may throw an OSException (IO), another ExceptionBase (AUTH_FAIL) or
\* another std::exception (unknown).
HostOutcomes == IF faults > 0 THEN {"ok", "IO", "AUTH_FAIL", "unknown"} ELSE {"ok"}
Fail(out) == faults' = IF out = "ok" THEN faults ELSE faults - 1

\* --------------------------------------------------------------- inputs
PathOps == {"getattr", "opendir", "open", "truncate", "chmod", "chown", "readlink"}
BaseOps == {"create", "mkdir", "symlink", "unlink"}
CreateOps == {"create", "mkdir", "symlink"}
HandleOps == {"read", "write", "flush", "ftruncate", "readdir"}

NameChars == {"a"}

\* Every sequence of at most d one-character components.
RECURSIVE CompSeqs(_)
CompSeqs(d) ==
    IF d = 0 THEN {<<>>}
    ELSE LET shorter == CompSeqs(d - 1) IN
         shorter \cup {Append(c, <<x>>) : c \in {y \in shorter : Len(y) = d - 1},
                                            x \in NameChars}

RECURSIVE Render(_)
Render(comps) ==
    IF comps = <<>> THEN <<>> ELSE <<SEP>> \o Head(comps) \o Render(Tail(comps))

RECURSIVE RenderDouble(_)
RenderDouble(comps) ==
    IF comps = <<>> THEN <<>>
    ELSE <<SEP, SEP>> \o Head(comps) \o RenderDouble(Tail(comps))

\* The same components written plainly, with a trailing slash, with every
\* separator doubled.
Spellings(comps) ==
    IF comps = <<>> THEN {<<SEP>>, <<>>}
    ELSE {Render(comps), Render(comps) \o <<SEP>>, RenderDouble(comps)}

PlainPaths(d) == {IF c = <<>> THEN <<SEP>> ELSE Render(c) : c \in CompSeqs(d)}
SpelledPaths(d) == UNION {Spellings(c) : c \in CompSeqs(d)}

PathArgs == paths

ModeArgs == {S_IFLNK + 420}
\* chmod's mode: foreign type bits over rw-r--r--, or over the sticky bit and
\* rwxrwxrwx.
ChmodArgs == IF prev.on THEN {S_IFLNK + 2 * PermMask + 1} ELSE ModeArgs
OpenFlagArgs ==
    IF workers = 1
    THEN {{}, {"O_TRUNC"}, {"O_WRONLY"}, {"O_RDWR"}, {"O_APPEND"}}
    ELSE {{}}
SizeArgs == {0}
\* The payloads and offsets of read and write: a driver that notes its calls
\* also varies them.
BufArgs == IF prev.on THEN {<<1>>, <<2, 3>>} ELSE {<<1>>}
OffArgs == IF prev.on THEN {0, 1} ELSE {0}
\* symlink's target, as bytes, and readlink's buffer sizes.
TargetArgs == IF prev.on THEN {<<5, 6>>} ELSE {<<5>>}
LinkSizeArgs == {0, 1, 2, 4}

\* open(): the access the flags ask for.
RequireWrite(flags) == flags \cap {"O_WRONLY", "O_APPEND", "O_RDWR"} # {}

\* The operations that test is_readonly(ctx) before anything else.
ChecksReadonly(op, flags) ==
    \/ op \in BaseOps
    \/ op = "open" /\ RequireWrite(flags)

CreateModeRaw(op, mode) == mode

\* create / mkdir: mode &= ~S_IFMT; mode |= S_IFxxx.  symlink: S_IFLNK | 0755.
CreateMode(op, mode) ==
    CASE op = "create" -> ClearFmt(mode) + S_IFREG
      [] op = "mkdir" -> ClearFmt(mode) + S_IFDIR
      [] op = "symlink" -> S_IFLNK + SymlinkPerm

CreateType(op) ==
    CASE op = "create" -> REGULAR_FILE
      [] op = "mkdir" -> DIRECTORY
      [] op = "symlink" -> SYMLINK

\* generate_random(): an id of which the repository holds no trace.  The ids
\* are opaque and interchangeable, so the least such id stands for the draw.
UnusedIds ==
    {i \in Ids \ {root_id} :
        /\ ~obj[i].present
        /\ ~table[i].present
        /\ \A j \in Ids : \A e \in obj[j].entries : e.id # i
        /\ \A t \in Threads : th[t].newid # i /\ th[t].id # i}

FreshIds == IF UnusedIds = {} THEN {}
            ELSE {CHOOSE i \in UnusedIds : \A j \in UnusedIds : i <= j}

SlotFree(s) == fh[s].null /\ \A t \in Threads : th[t].slot # s
SlotUsable(s) ==
    \A t \in Threads : th[t].slot = s => th[t].op \in HandleOps


\* ------------------------------------------------------ RegularFile content
Min(a, b) == IF a < b THEN a ELSE b
Max(a, b) == IF a > b THEN a ELSE b

ReadData(data, off, len) == SubSeq(data, off + 1, Min(off + len, Len(data)))

Resize(data, n) ==
    [k \in 1..n |-> IF k <= Len(data) THEN data[k] ELSE 0]

WriteData(data, off, buf) ==
    [k \in 1..Max(Len(data), off + Len(buf)) |->
        IF k > off /\ k <= off + Len(buf) THEN buf[k - off]
        ELSE IF k <= Len(data) THEN data[k] ELSE 0]

\* ------------------------------------------------------------ invocation
Idle(t) == t <= workers /\ th[t].pc = "idle"

\* What the operation remembers of the repository as it was when invoked
\* (kept on single-threaded mounts only).
Snapshot == IF workers = 1 THEN obj ELSE <<>>

\* The first statements of an operation: the read-only test where it has one.
Begin(t, r) ==
    LET c == split(r.path)
        q == [r EXCEPT !.comps = c,
                       !.pre = Snapshot,
                       !.n = IF r.op \in PathOps THEN Len(c)
                             ELSE IF c = <<>> THEN 0 ELSE Len(c) - 1]
    IN  /\ SetTh(t, IF ChecksReadonly(r.op, r.flags) /\ readonly
                    THEN [q EXCEPT !.pc = "done", !.ret = Err("EROFS")]
                    ELSE [q EXCEPT !.pc = "root_open"])
        /\ UNCHANGED <<host, prev, workers, readonly, faults, paths, obj, table, flock, fh>>

Getattr(t) ==
    /\ Idle(t)
    /\ \E path \in PathArgs :
          Begin(t, [ThreadInit EXCEPT !.op = "getattr", !.path = path])

Opendir(t) ==
    /\ Idle(t)
    /\ \E path \in PathArgs, s \in Slots :
          /\ SlotFree(s)
          /\ Begin(t, [ThreadInit EXCEPT !.op = "opendir", !.path = path, !.slot = s])

Open(t) ==
    /\ Idle(t)
    /\ \E path \in PathArgs, s \in Slots, f \in OpenFlagArgs :
          /\ SlotFree(s)
          /\ Begin(t, [ThreadInit EXCEPT !.op = "open", !.path = path, !.slot = s,
                                        !.flags = f])

Truncate(t) ==
    /\ Idle(t)
    /\ \E path \in PathArgs, n \in SizeArgs :
          Begin(t, [ThreadInit EXCEPT !.op = "truncate", !.path = path, !.size = n])

Chmod(t) ==
    /\ Idle(t)
    /\ \E path \in PathArgs, m \in ChmodArgs :
          Begin(t, [ThreadInit EXCEPT !.op = "chmod", !.path = path, !.mode = m])

Chown(t) ==
    /\ Idle(t)
    /\ \E path \in PathArgs, u \in {CtxUid(t)} :
          Begin(t, [ThreadInit EXCEPT !.op = "chown", !.path = path,
                                        !.uid = u, !.gid = u])

Create(t) ==
    /\ Idle(t)
    /\ \E path \in PathArgs, s \in Slots, m \in ModeArgs, i \in FreshIds :
          /\ SlotFree(s)
          /\ Begin(t, [ThreadInit EXCEPT !.op = "create", !.path = path, !.slot = s,
                                        !.mode = CreateMode("create", m), !.arg = m,
                                        !.type = REGULAR_FILE, !.newid = i])

Mkdir(t) ==
    /\ Idle(t)
    /\ \E path \in PathArgs, m \in ModeArgs, i \in FreshIds :
          Begin(t, [ThreadInit EXCEPT !.op = "mkdir", !.path = path,
                                        !.mode = CreateMode("mkdir", m), !.arg = m,
                                        !.type = DIRECTORY, !.newid = i])

Symlink(t) ==
    /\ Idle(t)
    /\ \E path \in PathArgs, to \in TargetArgs, i \in FreshIds :
          Begin(t, [ThreadInit EXCEPT !.op = "symlink", !.path = path,
                                        !.mode = CreateMode("symlink", 0),
                                        !.buf = to,
                                        !.type = SYMLINK, !.newid = i])

Unlink(t) ==
    /\ Idle(t)
    /\ \E path \in PathArgs :
          Begin(t, [ThreadInit EXCEPT !.op = "unlink", !.path = path])

\* readlink: a buffer of no bytes is refused before anything else.
Readlink(t) ==
    /\ Idle(t)
    /\ \E path \in PathArgs, n \in LinkSizeArgs :
          IF n = 0
          THEN /\ SetTh(t, [ThreadInit EXCEPT !.op = "readlink", !.path = path,
                                              !.size = n, !.pc = "done",
                                              !.ret = Err("EINVAL")])
               /\ UNCHANGED <<host, prev, workers, readonly, faults, paths, obj, table,
                              flock, fh>>
          ELSE Begin(t, [ThreadInit EXCEPT !.op = "readlink", !.path = path,
                                          !.size = n])

\* rmdir(path) is unlink(path).
Rmdir(t) == Unlink(t)


\* ------------------------------------------------------------------ locks
\* A FileTable critical section (table_open_as, table_create_as, FileGuard::reset)
\* is one table call under std::lock_guard<FileTable>; it acquires nothing else
\* and touches only what the table mutex protects, so it is one atomic step.
\* std::lock_guard<FileBase>: which object each locking statement locks.
AfterFileLock(pc) ==
    CASE pc = "res_lock" -> "res_get"
      [] pc = "cr_add_lock" -> "cr_add"
      [] pc = "rm_lock" -> "rm_entry"
      [] pc = "rm_ulock" -> "rm_unlink"
      [] pc = "ga_lock" -> "ga_body"
      [] pc = "cm_lock" -> "cm_body"
      [] pc = "co_lock" -> "co_body"
      [] pc = "tr_lock" -> "tr_body"
      [] pc = "op_tr_lock" -> "op_tr"
      [] pc = "h_lock" -> "h_body"

FileLockPcs ==
    {"res_lock", "cr_add_lock", "rm_lock", "rm_ulock", "ga_lock", "cm_lock",
     "co_lock", "tr_lock", "op_tr_lock", "h_lock"}

LockTarget(r) ==
    CASE r.pc = "rm_ulock" -> r.g2.id
      [] r.pc = "h_lock" -> fh[r.slot].id
      [] OTHER -> r.g1.id

UnlockNever(id) == flock

\* ~lock_guard<FileBase>: the scope of the guard ends with the locked statements.
Unlock(id) == [flock EXCEPT ![id] = 0]

LockFile(t) ==
    /\ th[t].pc \in FileLockPcs
    /\ flock[LockTarget(th[t])] = 0
    /\ flock' = [flock EXCEPT ![LockTarget(th[t])] = t]
    /\ SetTh(t, [th[t] EXCEPT !.pc = AfterFileLock(th[t].pc)])
    /\ UNCHANGED <<host, prev, workers, readonly, faults, paths, obj, table, fh>>

\* --------------------------------------------------------- path resolution
\* Where an operation goes on once its path is resolved into the guard g1.
Cont(r) ==
    CASE r.op = "getattr" -> [r EXCEPT !.pc = "ga_lock"]
      [] r.op = "chmod" -> [r EXCEPT !.pc = "cm_lock"]
      [] r.op = "chown" -> [r EXCEPT !.pc = "co_lock"]
      [] r.op = "readlink" -> [r EXCEPT !.pc = "lk_body"]
      [] r.op = "opendir" -> [r EXCEPT !.pc = "od_body"]
      [] r.op = "open" -> [r EXCEPT !.pc = "op_body"]
      [] r.op = "truncate" ->
            IF obj[r.g1.id].type # REGULAR_FILE
            THEN Finish(r, Err("EINVAL"))
            ELSE [r EXCEPT !.pc = "tr_lock"]
      [] r.op \in CreateOps -> [r EXCEPT !.pc = "cr_create"]
      [] r.op = "unlink" ->
            IF r.last = <<>> THEN Throw(r, "EPERM") ELSE [r EXCEPT !.pc = "rm_lock"]

\* open_base_dir: the root directory is opened through the table.
RootOpen(t) ==
    LET r == th[t]
        o == TableOpenAs(root_id, DIRECTORY)
        q == [r EXCEPT !.g1 = o.ref, !.i = 1,
                       !.last = IF r.comps = <<>> THEN <<>>
                                ELSE r.comps[Len(r.comps)]]
    IN  /\ r.pc = "root_open"
        /\ table' = o.table
        /\ SetTh(t, IF o.err # "OK" THEN Throw(r, o.err)
                    ELSE IF r.n >= 1 THEN [q EXCEPT !.pc = "res_lock"]
                    ELSE Cont(q))
        /\ UNCHANGED <<host, prev, workers, readonly, faults, paths, obj, flock, fh>>

NotDirErrorNever(final, type) == FALSE

\* open_base_dir: if (type != FileBase::DIRECTORY) throw OSException(ENOTDIR),
\* for the components before the last; open_all has no such test for the last.
NotDirError(final, type) == ~final /\ type # DIRECTORY

\* dir_get_entry on the current directory, for component i.
ResGet(t) ==
    LET r == th[t]
        d == obj[r.g1.id]
        name == r.comps[r.i]
    IN  /\ r.pc = "res_get"
        /\ flock[r.g1.id] = t
        /\ flock' = Unlock(r.g1.id)
        /\ SetTh(t, IF ~HasEntry(d, name) THEN Throw(r, "ENOENT")
                    ELSE IF NotDirError(r.i = Len(r.comps), EntryOf(d, name).type)
                         THEN Throw(r, "ENOTDIR")
                         ELSE [r EXCEPT !.id = EntryOf(d, name).id,
                                        !.type = EntryOf(d, name).type,
                                        !.pc = "res_open"])
        /\ UNCHANGED <<host, prev, workers, readonly, faults, paths, obj, table, fh>>

\* table_open_as(id, type) of the entry found.
ResOpen(t) ==
    LET r == th[t]
        o == TableOpenAs(r.id, r.type)
    IN  /\ r.pc = "res_open"
        /\ table' = o.table
        /\ SetTh(t, IF o.err # "OK" THEN Throw(r, o.err)
                    ELSE [r EXCEPT !.tmp = o.ref, !.pc = "res_reset"])
        /\ UNCHANGED <<host, prev, workers, readonly, faults, paths, obj, flock, fh>>

\* result.reset(child): the directory just walked through is closed.
ResReset(t) ==
    LET r == th[t]
        c == IF ResetCloses(r.g1) THEN TableClose(r.g1)
             ELSE [table |-> table, obj |-> obj]
        q == [r EXCEPT !.g1 = r.tmp, !.tmp = NullRef, !.i = r.i + 1]
    IN  /\ r.pc = "res_reset"
        /\ table' = c.table
        /\ obj' = c.obj
        /\ SetTh(t, IF r.i < r.n THEN [q EXCEPT !.pc = "res_lock"] ELSE Cont(q))
        /\ UNCHANGED <<host, prev, workers, readonly, faults, paths, flock, fh>>

\* ~FileGuard of the guards still owned: the later constructed one first.
EpClose(t) ==
    LET r == th[t]
        second == ResetCloses(r.g2)
        c == TableClose(IF second THEN r.g2 ELSE r.g1)
        q == IF second THEN [r EXCEPT !.g2 = NullRef] ELSE [r EXCEPT !.g1 = NullRef]
    IN  /\ r.pc = "ep_close"
        /\ table' = c.table
        /\ obj' = c.obj
        /\ SetTh(t, [q EXCEPT !.pc = NextEpi(q)])
        /\ UNCHANGED <<host, prev, workers, readonly, faults, paths, flock, fh>>

\* The calls that change the repository when they succeed.
Mutates(r) ==
    \/ r.op \in BaseOps \cup {"write", "ftruncate", "truncate", "chmod", "chown"}
    \/ r.op = "open" /\ "O_TRUNC" \in r.flags

\* No call noted yet; on tells whether the driver keeps the note at all.
NoPrev(on) ==
    [on |-> on, op |-> "none", path |-> <<>>, ret |-> Ok(0), id |-> 0,
     buf |-> <<>>, off |-> 0, mode |-> 0, pre |-> <<>>]

\* The operation has returned to the driver, which notes the call, the object
\* it was about and the repository it found if the call is one that changes it.
Return(t) ==
    LET r == th[t] IN
    /\ r.pc = "done"
    /\ SetTh(t, ThreadInit)
    /\ prev' = IF prev.on /\ Mutates(r)
               THEN [on |-> TRUE, op |-> r.op, path |-> r.path, ret |-> r.ret,
                     id |-> IF r.op \in CreateOps THEN r.newid
                            ELSE IF r.op \in HandleOps THEN fh[r.slot].id
                            ELSE r.id,
                     buf |-> r.buf, off |-> r.off, mode |-> r.mode, pre |-> r.pre]
               ELSE prev
    /\ UNCHANGED <<host, workers, readonly, faults, paths, obj, table, flock, fh>>


\* ------------------------------------------------ operations on a path
\* getattr: stat and flush under the object's mutex.
GaBody(t) ==
    LET r == th[t] IN
    /\ r.pc = "ga_body"
    /\ flock[r.g1.id] = t
    /\ flock' = Unlock(r.g1.id)
    /\ \E out \in HostOutcomes :
          Fail(out) /\ IF out = "ok"
          THEN /\ table' = Flushed(table, r.g1.id)
               /\ SetTh(t, Finish([r EXCEPT !.st = obj[r.g1.id].mode,
                                            !.id = r.g1.id], Ok(0)))
          ELSE /\ table' = table
               /\ SetTh(t, Raise(r, out))
    /\ UNCHANGED <<host, prev, workers, readonly, paths, obj, fh>>

ChmodModeRaw(mode, original) == mode

\* chmod: mode &= 0777; mode |= original_mode & S_IFMT; set_mode; flush.
ChmodMode(mode, original) == (mode % (PermMask + 1)) + FmtOf(original)

CmBody(t) ==
    LET r == th[t] IN
    /\ r.pc = "cm_body"
    /\ flock[r.g1.id] = t
    /\ flock' = Unlock(r.g1.id)
    /\ obj' = [obj EXCEPT ![r.g1.id].mode = ChmodMode(r.mode, @)]
    /\ \E out \in HostOutcomes :
          Fail(out) /\ IF out = "ok"
          THEN /\ table' = Flushed(table, r.g1.id)
               /\ SetTh(t, Finish(r, Ok(0)))
          ELSE /\ table' = Touch(table, r.g1.id)
               /\ SetTh(t, Raise(r, out))
    /\ UNCHANGED <<host, prev, workers, readonly, paths, fh>>

\* readlink: memset(buf, 0, size); memcpy(buf, destination.data(),
\* std::min(destination.size(), size - 1)).
ReadlinkBuf(destination, size) ==
    [k \in 1..size |->
        IF k <= Min(Len(destination), size - 1) THEN destination[k] ELSE 0]

\* readlink: the type test, then Symlink::get() with no mutex held.
LkBody(t) ==
    LET r == th[t] IN
    /\ r.pc = "lk_body"
    /\ IF obj[r.g1.id].type # SYMLINK
       THEN /\ SetTh(t, Finish(r, Err("EINVAL")))
            /\ faults' = faults
       ELSE \E out \in HostOutcomes :
               Fail(out) /\ IF out = "ok"
               THEN SetTh(t, Finish([r EXCEPT !.buf = ReadlinkBuf(obj[r.g1.id].target,
                                                                 r.size),
                                              !.id = r.g1.id], Ok(0)))
               ELSE SetTh(t, Raise(r, out))
    /\ UNCHANGED <<host, prev, workers, readonly, paths, obj, table, flock, fh>>

\* chown: set_uid; set_gid; flush.
CoBody(t) ==
    LET r == th[t] IN
    /\ r.pc = "co_body"
    /\ flock[r.g1.id] = t
    /\ flock' = Unlock(r.g1.id)
    /\ obj' = [obj EXCEPT ![r.g1.id].uid = r.uid, ![r.g1.id].gid = r.gid]
    /\ \E out \in HostOutcomes :
          Fail(out) /\ IF out = "ok"
          THEN /\ table' = Flushed(table, r.g1.id)
               /\ SetTh(t, Finish(r, Ok(0)))
          ELSE /\ table' = Touch(table, r.g1.id)
               /\ SetTh(t, Raise(r, out))
    /\ UNCHANGED <<host, prev, workers, readonly, paths, fh>>

\* truncate: RegularFile::truncate(size); flush.
TrBody(t) ==
    LET r == th[t] IN
    /\ r.pc = "tr_body"
    /\ flock[r.g1.id] = t
    /\ flock' = Unlock(r.g1.id)
    /\ obj' = [obj EXCEPT ![r.g1.id].data = Resize(@, r.size)]
    /\ \E out \in HostOutcomes :
          Fail(out) /\ IF out = "ok"
          THEN /\ table' = Flushed(table, r.g1.id)
               /\ SetTh(t, Finish(r, Ok(0)))
          ELSE /\ table' = Touch(table, r.g1.id)
               /\ SetTh(t, Raise(r, out))
    /\ UNCHANGED <<host, prev, workers, readonly, paths, fh>>

\* opendir: the guard's pointer becomes the handle.
OdBody(t) ==
    LET r == th[t] IN
    /\ r.pc = "od_body"
    /\ IF obj[r.g1.id].type # DIRECTORY
       THEN /\ SetTh(t, Finish(r, Err("ENOTDIR")))
            /\ fh' = fh
       ELSE /\ fh' = [fh EXCEPT ![r.slot] = r.g1]
            /\ SetTh(t, Finish([r EXCEPT !.g1 = GuardRelease(r.g1)], Ok(0)))
    /\ UNCHANGED <<host, prev, workers, readonly, faults, paths, obj, table, flock>>

\* open: the type test, then either the O_TRUNC branch or the handle.
OpBody(t) ==
    LET r == th[t] IN
    /\ r.pc = "op_body"
    /\ IF obj[r.g1.id].type # REGULAR_FILE
       THEN /\ SetTh(t, Finish(r, Err("EPERM")))
            /\ fh' = fh
       ELSE IF "O_TRUNC" \in r.flags
            THEN /\ SetTh(t, [r EXCEPT !.pc = "op_tr_lock"])
                 /\ fh' = fh
            ELSE /\ fh' = [fh EXCEPT ![r.slot] = r.g1]
                 /\ SetTh(t, Finish([r EXCEPT !.g1 = GuardRelease(r.g1)], Ok(0)))
    /\ UNCHANGED <<host, prev, workers, readonly, faults, paths, obj, table, flock>>

\* open with O_TRUNC: truncate(0) under the object's mutex, then the handle.
OpTr(t) ==
    LET r == th[t] IN
    /\ r.pc = "op_tr"
    /\ flock[r.g1.id] = t
    /\ flock' = Unlock(r.g1.id)
    /\ obj' = [obj EXCEPT ![r.g1.id].data = Resize(@, 0)]
    /\ table' = Touch(table, r.g1.id)
    /\ fh' = [fh EXCEPT ![r.slot] = r.g1]
    /\ SetTh(t, Finish([r EXCEPT !.g1 = GuardRelease(r.g1)], Ok(0)))
    /\ UNCHANGED <<host, prev, workers, readonly, faults, paths>>


\* ------------------------------------------------- internal::create
\* table_create_as(id, type) for the id drawn by generate_random.
CrCreate(t) ==
    LET r == th[t]
        o == TableCreateAs(r.newid, CreateType(r.op), CtxUid(t), CtxGid(t))
    IN  /\ r.pc = "cr_create"
        /\ table' = o.table
        /\ obj' = o.obj
        /\ SetTh(t, IF o.err # "OK" THEN Throw(r, o.err)
                    ELSE [r EXCEPT !.g2 = o.ref, !.pc = "cr_add_lock"])
        /\ UNCHANGED <<host, prev, workers, readonly, faults, paths, flock, fh>>

AddFailedNever(success) == FALSE

\* internal::create: if (!success) { result->unlink(); throw OSException(EEXIST); }
AddFailed(success) == ~success

AddOutcomes == IF faults > 0 THEN {"ok", "add_throws", "flush_throws"} ELSE {"ok"}

\* dir_add_entry: add_entry and flush under the directory's mutex.  A false
\* result and an exception both lead to result->unlink().
CrAdd(t) ==
    LET r == th[t]
        d == obj[r.g1.id]
        exists == HasEntry(d, r.last)
    IN  /\ r.pc = "cr_add"
        /\ flock[r.g1.id] = t
        /\ flock' = Unlock(r.g1.id)
        /\ \E out \in AddOutcomes :
              Fail(out) /\ CASE out = "ok" ->
                    /\ obj' = [obj EXCEPT ![r.g1.id] = AddEntry(d, r.last, r.newid, CreateType(r.op))]
                    /\ table' = Flushed(table, r.g1.id)
                    /\ SetTh(t, IF AddFailed(~exists)
                                THEN [r EXCEPT !.pc = "cr_unlink", !.ret = Err("EEXIST"),
                                               !.note = "add_failed"]
                                ELSE [r EXCEPT !.pc = "cr_dclose"])
                [] out = "add_throws" ->
                    /\ obj' = obj
                    /\ table' = table
                    /\ SetTh(t, [r EXCEPT !.pc = "cr_unlink", !.ret = Err("EIO"),
                                          !.note = "add_failed"])
                [] out = "flush_throws" ->
                    /\ obj' = [obj EXCEPT ![r.g1.id] = AddEntry(d, r.last, r.newid, CreateType(r.op))]
                    /\ table' = IF exists THEN table ELSE Touch(table, r.g1.id)
                    /\ SetTh(t, [r EXCEPT !.pc = "cr_unlink", !.ret = Err("EIO"),
                                          !.note = "add_failed"])
        /\ UNCHANGED <<host, prev, workers, readonly, paths, fh>>

\* FileBase::unlink(): the object is marked for deletion at its last close.
UnlinkMark(o) == [o EXCEPT !.nlink = 0]

\* result->unlink() on the failure paths, then the exception goes on.
CrUnlink(t) ==
    LET r == th[t] IN
    /\ r.pc = "cr_unlink"
    /\ obj' = [obj EXCEPT ![r.g2.id] = UnlinkMark(@)]
    /\ table' = Touch(table, r.g2.id)
    /\ SetTh(t, Throw(r, r.ret.e))
    /\ UNCHANGED <<host, prev, workers, readonly, faults, paths, flock, fh>>

\* internal::create returns: its guard on the parent directory is destroyed.
CrDclose(t) ==
    LET r == th[t]
        c == TableClose(r.g1)
    IN  /\ r.pc = "cr_dclose"
        /\ table' = c.table
        /\ obj' = c.obj
        /\ SetTh(t, [r EXCEPT !.g1 = NullRef, !.pc = "cr_uid"])
        /\ UNCHANGED <<host, prev, workers, readonly, faults, paths, flock, fh>>

\* The type test on the new object, then fg->set_uid(ctx->uid).
CrUid(t) ==
    LET r == th[t] IN
    /\ r.pc = "cr_uid"
    /\ IF obj[r.g2.id].type # CreateType(r.op)
       THEN /\ SetTh(t, Finish(r, Err(TypeMismatchErr(CreateType(r.op)))))
            /\ UNCHANGED <<obj, table>>
       ELSE /\ obj' = [obj EXCEPT ![r.g2.id].uid = CtxUid(t)]
            /\ table' = Touch(table, r.g2.id)
            /\ SetTh(t, [r EXCEPT !.pc = "cr_gid"])
    /\ UNCHANGED <<host, prev, workers, readonly, faults, paths, flock, fh>>

CrGid(t) ==
    LET r == th[t] IN
    /\ r.pc = "cr_gid"
    /\ obj' = [obj EXCEPT ![r.g2.id].gid = CtxGid(t)]
    /\ table' = Touch(table, r.g2.id)
    /\ SetTh(t, [r EXCEPT !.pc = "cr_nlink"])
    /\ UNCHANGED <<host, prev, workers, readonly, faults, paths, flock, fh>>

\* fg->set_nlink(1)
NewNlink(o) == [o EXCEPT !.nlink = 1]

CrNlink(t) ==
    LET r == th[t] IN
    /\ r.pc = "cr_nlink"
    /\ obj' = [obj EXCEPT ![r.g2.id] = NewNlink(@)]
    /\ table' = Touch(table, r.g2.id)
    /\ SetTh(t, [r EXCEPT !.pc = "cr_mode"])
    /\ UNCHANGED <<host, prev, workers, readonly, faults, paths, flock, fh>>

\* fg->set_mode(mode)
CrMode(t) ==
    LET r == th[t] IN
    /\ r.pc = "cr_mode"
    /\ obj' = [obj EXCEPT ![r.g2.id].mode = r.mode]
    /\ table' = Touch(table, r.g2.id)
    /\ SetTh(t, [r EXCEPT !.pc = IF r.op = "symlink" THEN "cr_target" ELSE "cr_flush"])
    /\ UNCHANGED <<host, prev, workers, readonly, faults, paths, flock, fh>>

\* symlink: fg.get_as<Symlink>()->set(to)
CrTarget(t) ==
    LET r == th[t] IN
    /\ r.pc = "cr_target"
    /\ obj' = [obj EXCEPT ![r.g2.id].target = r.buf]
    /\ table' = Touch(table, r.g2.id)
    /\ SetTh(t, [r EXCEPT !.pc = "cr_flush"])
    /\ UNCHANGED <<host, prev, workers, readonly, faults, paths, flock, fh>>

\* fg->flush(); create hands the pointer to the handle, mkdir and symlink
\* let the guard close the object.
CrFlush(t) ==
    LET r == th[t] IN
    /\ r.pc = "cr_flush"
    /\ \E out \in HostOutcomes :
          Fail(out) /\ IF out = "ok"
          THEN /\ table' = Flushed(table, r.g2.id)
               /\ IF r.op = "create"
                  THEN /\ fh' = [fh EXCEPT ![r.slot] = r.g2]
                       /\ SetTh(t, Finish([r EXCEPT !.g2 = GuardRelease(r.g2)], Ok(0)))
                  ELSE /\ fh' = fh
                       /\ SetTh(t, Finish(r, Ok(0)))
          ELSE /\ table' = table
               /\ fh' = fh
               /\ SetTh(t, Raise(r, out))
    /\ UNCHANGED <<host, prev, workers, readonly, paths, obj, flock>>

\* ------------------------------------------------- internal::remove
\* remove_entry and flush under the parent directory's mutex.
RmEntry(t) ==
    LET r == th[t]
        d == obj[r.g1.id]
    IN  /\ r.pc = "rm_entry"
        /\ flock[r.g1.id] = t
        /\ flock' = Unlock(r.g1.id)
        /\ IF ~HasEntry(d, r.last)
           THEN /\ SetTh(t, Throw(r, "ENOENT"))
                /\ UNCHANGED <<obj, table, faults>>
           ELSE /\ obj' = [obj EXCEPT ![r.g1.id] = RemoveEntry(d, r.last)]
                /\ \E out \in HostOutcomes :
                      Fail(out) /\ IF out = "ok"
                      THEN /\ table' = Flushed(table, r.g1.id)
                           /\ SetTh(t, [r EXCEPT !.id = EntryOf(d, r.last).id,
                                                 !.type = EntryOf(d, r.last).type,
                                                 !.pc = "rm_open"])
                      ELSE /\ table' = Touch(table, r.g1.id)
                           /\ SetTh(t, Raise(r, out))
        /\ UNCHANGED <<host, prev, workers, readonly, paths, fh>>

\* FileGuard to_be_removed(table_open_as(id, type))
RmOpen(t) ==
    LET r == th[t]
        o == TableOpenAs(r.id, r.type)
    IN  /\ r.pc = "rm_open"
        /\ table' = o.table
        /\ SetTh(t, IF o.err # "OK" THEN Throw(r, o.err)
                    ELSE [r EXCEPT !.g2 = o.ref, !.pc = "rm_ulock"])
        /\ UNCHANGED <<host, prev, workers, readonly, faults, paths, obj, flock, fh>>

MarkRemovedNot(o) == o

MarkRemovedNow(o) == NoFile

\* internal::remove: what it does to the object whose entry it took out.
MarkRemoved(o) == UnlinkMark(o)

\* to_be_removed->unlink() under the object's mutex.
RmUnlink(t) ==
    LET r == th[t] IN
    /\ r.pc = "rm_unlink"
    /\ flock[r.g2.id] = t
    /\ flock' = Unlock(r.g2.id)
    /\ obj' = [obj EXCEPT ![r.g2.id] = MarkRemoved(@)]
    /\ table' = Touch(table, r.g2.id)
    /\ SetTh(t, Finish(r, Ok(0)))
    /\ UNCHANGED <<host, prev, workers, readonly, faults, paths, fh>>


\* ------------------------------------------------ operations on a handle
\* release / releasedir: a null handle is refused; the driver calls it once
\* per handle, after every other operation on the handle has returned.
Release(t) ==
    /\ Idle(t)
    /\ \E s \in Slots :
          /\ \A u \in Threads : th[u].slot # s
          /\ SetTh(t, IF fh[s].null
                      THEN [ThreadInit EXCEPT !.op = "release", !.slot = s,
                                              !.pre = Snapshot,
                                              !.pc = "done", !.ret = Err("EINVAL")]
                      ELSE [ThreadInit EXCEPT !.op = "release", !.slot = s,
                                              !.pre = Snapshot,
                                              !.pc = "rl_flush"])
    /\ UNCHANGED <<host, prev, workers, readonly, faults, paths, obj, table, flock, fh>>

\* release: fb->flush() comes first, outside any guard and any mutex.  When it
\* throws the operation returns; the driver drops the handle either way.
RlFlush(t) ==
    LET r == th[t] IN
    /\ r.pc = "rl_flush"
    /\ \E out \in HostOutcomes :
          Fail(out) /\ IF out = "ok"
          THEN /\ table' = Flushed(table, fh[r.slot].id)
               /\ fh' = fh
               /\ SetTh(t, [r EXCEPT !.pc = "rl_close"])
          ELSE /\ table' = table
               /\ fh' = [fh EXCEPT ![r.slot] = NullRef]
               /\ SetTh(t, Raise(r, out))
    /\ UNCHANGED <<host, prev, workers, readonly, paths, obj, flock>>

\* release: FileGuard fg(table, fb); fg.reset(nullptr).
RlClose(t) ==
    LET r == th[t]
        c == IF ResetCloses(fh[r.slot]) THEN TableClose(fh[r.slot])
             ELSE [table |-> table, obj |-> obj]
    IN  /\ r.pc = "rl_close"
        /\ table' = c.table
        /\ obj' = c.obj
        /\ fh' = [fh EXCEPT ![r.slot] = NullRef]
        /\ SetTh(t, [r EXCEPT !.pc = "done", !.ret = Ok(0)])
        /\ UNCHANGED <<host, prev, workers, readonly, faults, paths, flock>>

WrongTypeErrSame(op) == "EPERM"

\* read, write, flush, ftruncate: the null test and the type test come before
\* the lock.
WrongTypeErr(op) == IF op = "ftruncate" THEN "EINVAL" ELSE "EPERM"

HandleBegin(t, r) ==
    /\ SlotUsable(r.slot)
    /\ SetTh(t, IF fh[r.slot].null
                THEN [r EXCEPT !.pc = "done", !.ret = Err("EINVAL")]
                ELSE IF obj[fh[r.slot].id].type # REGULAR_FILE
                     THEN [r EXCEPT !.pc = "done", !.ret = Err(WrongTypeErr(r.op))]
                     ELSE [r EXCEPT !.pc = "h_lock"])
    /\ UNCHANGED <<host, prev, workers, readonly, faults, paths, obj, table, flock, fh>>

Read(t) ==
    /\ Idle(t)
    /\ \E s \in Slots, n \in {Len(b) : b \in BufArgs}, o \in OffArgs :
          HandleBegin(t, [ThreadInit EXCEPT !.op = "read", !.slot = s, !.size = n,
                                            !.off = o, !.pre = Snapshot])

Write(t) ==
    /\ Idle(t)
    /\ \E s \in Slots, b \in BufArgs, o \in OffArgs :
          HandleBegin(t, [ThreadInit EXCEPT !.op = "write", !.slot = s, !.buf = b,
                                            !.size = Len(b), !.off = o,
                                            !.pre = Snapshot])

Flush(t) ==
    /\ Idle(t)
    /\ \E s \in Slots :
          HandleBegin(t, [ThreadInit EXCEPT !.op = "flush", !.slot = s,
                                            !.pre = Snapshot])

Ftruncate(t) ==
    /\ Idle(t)
    /\ \E s \in Slots, n \in SizeArgs :
          HandleBegin(t, [ThreadInit EXCEPT !.op = "ftruncate", !.slot = s, !.size = n,
                                            !.pre = Snapshot])

\* The room in the driver's buffer: how many entries its filler takes before
\* it answers non-zero.
FillArgs == {0, 1, MaxId}

\* readdir: a null handle and a handle that is no directory are refused
\* before the lock.
Readdir(t) ==
    /\ Idle(t)
    /\ \E s \in Slots, room \in FillArgs :
          LET r == [ThreadInit EXCEPT !.op = "readdir", !.slot = s, !.size = room,
                                     !.pre = Snapshot]
          IN  /\ SlotUsable(s)
              /\ SetTh(t, IF fh[s].null
                          THEN [r EXCEPT !.pc = "done", !.ret = Err("EINVAL")]
                          ELSE IF obj[fh[s].id].type # DIRECTORY
                               THEN [r EXCEPT !.pc = "done", !.ret = Err("ENOTDIR")]
                               ELSE [r EXCEPT !.pc = "h_lock"])
    /\ UNCHANGED <<host, prev, workers, readonly, faults, paths, obj, table, flock, fh>>

\* Directory::iterate_over_entries with readdir's callback: every entry once,
\* as the name and mode_for_type(type) handed to the filler.
RECURSIVE Listing(_)
Listing(entries) ==
    IF entries = {} THEN <<>>
    ELSE LET e == CHOOSE x \in entries : TRUE
         IN  <<[name |-> e.name, mode |-> mode_for_type(e.type)]>>
                 \o Listing(entries \ {e})

FillerCallsAll(list, room) == list

\* The calls of readdir's callback: it hands each entry to the filler and
\* answers whether the filler returned 0; the iteration stops at the first
\* entry refused.
FillerCalls(list, room) == SubSeq(list, 1, Min(Len(list), room + 1))

ReadCallAtStart(data, off, len) == ReadData(data, 0, len)

\* read: static_cast<RegularFile*>(fb)->read(buffer, off, len).
ReadCall(data, off, len) == ReadData(data, off, len)

\* The body of read, write, flush, ftruncate and readdir under the object's mutex.  The host
\* files of the object must be there for the transfer to succeed.
HBody(t) ==
    LET r == th[t]
        id == fh[r.slot].id
    IN  /\ r.pc = "h_body"
        /\ flock[id] = t
        /\ flock' = Unlock(id)
        /\ IF ~obj[id].present
           THEN /\ SetTh(t, [r EXCEPT !.pc = "done", !.ret = Err("EIO")])
                /\ UNCHANGED <<obj, table, faults>>
           ELSE CASE r.op = "read" ->
                     /\ SetTh(t, [r EXCEPT !.pc = "done",
                                     !.buf = ReadCall(obj[id].data, r.off, r.size),
                                     !.ret = Ok(Len(ReadCall(obj[id].data, r.off, r.size)))])
                     /\ UNCHANGED <<obj, table, faults>>
                  [] r.op = "readdir" ->
                     /\ SetTh(t, [r EXCEPT !.pc = "done",
                                     !.buf = FillerCalls(Listing(obj[id].entries),
                                                        r.size),
                                     !.ret = Ok(0)])
                     /\ UNCHANGED <<obj, table, faults>>
                  [] r.op = "write" ->
                     /\ obj' = [obj EXCEPT ![id].data = WriteData(@, r.off, r.buf)]
                     /\ table' = Touch(table, id)
                     /\ faults' = faults
                     /\ SetTh(t, [r EXCEPT !.pc = "done", !.ret = Ok(r.size)])
                  [] r.op = "flush" ->
                     /\ obj' = obj
                     /\ \E out \in HostOutcomes :
                           Fail(out) /\ IF out = "ok"
                           THEN /\ table' = Flushed(table, id)
                                /\ SetTh(t, [r EXCEPT !.pc = "done", !.ret = Ok(0)])
                           ELSE /\ table' = table
                                /\ SetTh(t, Raise(r, out))
                  [] r.op = "ftruncate" ->
                     /\ obj' = [obj EXCEPT ![id].data = Resize(@, r.size)]
                     /\ \E out \in HostOutcomes :
                           Fail(out) /\ IF out = "ok"
                           THEN /\ table' = Flushed(table, id)
                                /\ SetTh(t, [r EXCEPT !.pc = "done", !.ret = Ok(0)])
                           ELSE /\ table' = Touch(table, id)
                                /\ SetTh(t, Raise(r, out))
        /\ UNCHANGED <<host, prev, workers, readonly, paths, fh>>

\* ------------------------------------------------------------ the mount
RootObj ==
    [present |-> TRUE, type |-> DIRECTORY, nlink |-> 1, mode |-> S_IFDIR + SymlinkPerm,
     uid |-> 0, gid |-> 0, entries |-> {}, data |-> <<>>, target |-> <<>>]

FileObj(data) ==
    [present |-> TRUE, type |-> REGULAR_FILE, nlink |-> 1, mode |-> S_IFREG + 420,
     uid |-> 0, gid |-> 0, entries |-> {}, data |-> data, target |-> <<>>]

DirObj(entries) == [RootObj EXCEPT !.entries = entries]

\* Repositories a mount may find: empty; one file /a; a directory /a holding
\* a file /a/b.
EmptyRepo == [i \in Ids |-> IF i = root_id THEN RootObj ELSE NoFile]

FileRepo ==
    [i \in Ids |->
        CASE i = root_id -> DirObj({DirEntry(<<"a">>, 1, REGULAR_FILE)})
          [] i = 1 -> FileObj(<<1>>)
          [] OTHER -> NoFile]

TreeRepo ==
    [i \in Ids |->
        CASE i = root_id -> DirObj({DirEntry(<<"a">>, 1, DIRECTORY)})
          [] i = 1 -> DirObj({DirEntry(<<"b">>, 2, REGULAR_FILE)})
          [] i = 2 -> FileObj(<<>>)
          [] OTHER -> NoFile]

InitRest ==
    /\ table = [i \in Ids |-> NoEntry]
    /\ flock = [i \in Ids |-> 0]
    /\ fh = [s \in Slots |-> NullRef]
    /\ th = [t \in Threads |-> ThreadInit]

\* A writable mount of an empty repository served by all worker threads.
Init ==
    /\ workers = NThreads
    /\ readonly = FALSE
    /\ faults = 0
    /\ paths = PlainPaths(ConcDepth) \ {<<SEP>>}
    /\ obj = EmptyRepo
    /\ InitRest
    /\ prev = NoPrev(FALSE)
    /\ host = NoHost

\* A single-threaded writable mount of one of the repositories.
InitSeq ==
    /\ workers = 1
    /\ readonly = FALSE
    /\ faults = 0
    /\ paths = SpelledPaths(MaxDepth)
    /\ obj \in {EmptyRepo, FileRepo, TreeRepo}
    /\ InitRest
    /\ prev = NoPrev(FALSE)
    /\ host = NoHost

\* A single-threaded read-only mount of one of the repositories.
InitRo ==
    /\ workers = 1
    /\ readonly = TRUE
    /\ faults = 0
    /\ paths = PlainPaths(MaxDepth)
    /\ obj \in {EmptyRepo, FileRepo, TreeRepo}
    /\ InitRest
    /\ prev = NoPrev(FALSE)
    /\ host = NoHost

\* A single-threaded writable mount on a host whose I/O may fail.
InitFault ==
    /\ workers = 1
    /\ readonly = FALSE
    /\ faults = MaxFaults
    /\ paths = PlainPaths(MaxDepth)
    /\ obj \in {EmptyRepo, FileRepo, TreeRepo}
    /\ InitRest
    /\ prev = NoPrev(FALSE)
    /\ host = NoHost

\* A writable mount served by all worker threads on a host whose I/O may fail.
InitFaultRace ==
    /\ workers = NThreads
    /\ readonly = FALSE
    /\ faults = MaxFaults
    /\ paths = PlainPaths(ConcDepth) \ {<<SEP>>}
    /\ obj = EmptyRepo
    /\ InitRest
    /\ prev = NoPrev(FALSE)
    /\ host = NoHost

\* A single-threaded writable mount whose driver notes the last changing call.
InitTrip ==
    /\ workers = 1
    /\ readonly = FALSE
    /\ faults = 0
    /\ paths = PlainPaths(MaxDepth)
    /\ obj \in {EmptyRepo, FileRepo}
    /\ InitRest
    /\ prev = NoPrev(TRUE)
    /\ host = NoHost

\* A single-threaded writable mount of the repository holding file /a, whose
\* driver notes the last changing call.
InitData ==
    /\ workers = 1
    /\ readonly = FALSE
    /\ faults = 0
    /\ paths = PlainPaths(ConcDepth)
    /\ obj = FileRepo
    /\ InitRest
    /\ prev = NoPrev(TRUE)
    /\ host = NoHost

\* A writable mount of an empty repository served by all worker threads, the
\* root path among the paths.
InitRace ==
    /\ workers = NThreads
    /\ readonly = FALSE
    /\ faults = 0
    /\ paths = PlainPaths(ConcDepth)
    /\ obj = EmptyRepo
    /\ InitRest
    /\ prev = NoPrev(FALSE)
    /\ host = NoHost

\* A single-threaded writable mount of an empty repository whose driver passes
\* the paths /a, /., /.., /a/. and /a/.. as they come.
InitDots ==
    /\ workers = 1
    /\ readonly = FALSE
    /\ faults = 0
    /\ paths = {<<SEP, "a">>, <<SEP, ".">>, <<SEP, ".", ".">>,
                <<SEP, "a", SEP, ".">>, <<SEP, "a", SEP, ".", ".">>}
    /\ obj = EmptyRepo
    /\ InitRest
    /\ prev = NoPrev(FALSE)
    /\ host = NoHost

\* A single-threaded writable mount, empty or holding file /a, on a host whose
\* I/O may fail.
InitCatch ==
    /\ workers = 1
    /\ readonly = FALSE
    /\ faults = MaxFaults
    /\ paths = PlainPaths(ConcDepth)
    /\ obj \in {EmptyRepo, FileRepo}
    /\ InitRest
    /\ prev = NoPrev(FALSE)
    /\ host = NoHost

\* The steps every operation on a path shares.
Common(t) ==
    \/ LockFile(t) \/ RootOpen(t) \/ ResGet(t) \/ ResOpen(t) \/ ResReset(t)
    \/ EpClose(t) \/ Return(t)

\* getattr, opendir, open, create, mkdir, symlink, unlink, rmdir, release.
Core(t) ==
    \/ Getattr(t) \/ GaBody(t)
    \/ Opendir(t) \/ OdBody(t)
    \/ Open(t) \/ OpBody(t)
    \/ Create(t) \/ Mkdir(t) \/ Symlink(t)
    \/ CrCreate(t) \/ CrAdd(t) \/ CrUnlink(t) \/ CrDclose(t) \/ CrUid(t)
    \/ CrGid(t) \/ CrNlink(t) \/ CrMode(t) \/ CrTarget(t) \/ CrFlush(t)
    \/ Unlink(t) \/ Rmdir(t) \/ RmEntry(t) \/ RmOpen(t) \/ RmUnlink(t)
    \/ Release(t) \/ RlFlush(t) \/ RlClose(t)

\* read, write, ftruncate on a handle.
OnHandle(t) == Read(t) \/ Write(t) \/ Ftruncate(t) \/ HBody(t)

\* truncate, chmod, chown on a path.
OnAttr(t) ==
    \/ Truncate(t) \/ TrBody(t) \/ Chmod(t) \/ CmBody(t) \/ Chown(t) \/ CoBody(t)

\* getattr, create, mkdir, release.
Making(t) ==
    \/ Getattr(t) \/ GaBody(t)
    \/ Create(t) \/ Mkdir(t)
    \/ CrCreate(t) \/ CrAdd(t) \/ CrUnlink(t) \/ CrDclose(t) \/ CrUid(t)
    \/ CrGid(t) \/ CrNlink(t) \/ CrMode(t) \/ CrFlush(t)
    \/ Release(t) \/ RlFlush(t) \/ RlClose(t)

\* What a read-only mount can get to: the calls that test is_readonly return
\* at once, the others run as on any mount.
Guarded(t) ==
    \/ Getattr(t) \/ GaBody(t)
    \/ Opendir(t) \/ OdBody(t)
    \/ Open(t) \/ OpBody(t) \/ OpTr(t)
    \/ Create(t) \/ Mkdir(t) \/ Symlink(t) \/ Unlink(t) \/ Rmdir(t)
    \/ Release(t) \/ RlFlush(t) \/ RlClose(t)

\* getattr, chmod, readlink, create, mkdir, symlink, unlink, rmdir, release.
Naming(t) ==
    \/ Getattr(t) \/ GaBody(t) \/ Chmod(t) \/ CmBody(t)
    \/ Readlink(t) \/ LkBody(t)
    \/ Create(t) \/ Mkdir(t) \/ Symlink(t)
    \/ CrCreate(t) \/ CrAdd(t) \/ CrUnlink(t) \/ CrDclose(t) \/ CrUid(t)
    \/ CrGid(t) \/ CrNlink(t) \/ CrMode(t) \/ CrTarget(t) \/ CrFlush(t)
    \/ Unlink(t) \/ Rmdir(t) \/ RmEntry(t) \/ RmOpen(t) \/ RmUnlink(t)
    \/ Release(t) \/ RlFlush(t) \/ RlClose(t)

NextTrip == \E t \in Threads : Common(t) \/ Naming(t)
NextMaking == \E t \in Threads : Common(t) \/ Making(t)
NextCore == \E t \in Threads : Common(t) \/ Core(t) \/ OpTr(t)
\* The concurrent mount: every call that opens, makes, removes or releases an
\* object, and the transfers on handles.
Next == \E t \in Threads : Common(t) \/ Core(t) \/ OnHandle(t)
NextRo == \E t \in Threads : Common(t) \/ Guarded(t) \/ OnHandle(t) \/ OnAttr(t)

Spec == Init /\ [][Next]_vars
SpecSeq == InitSeq /\ [][NextCore]_vars
SpecRo == InitRo /\ [][NextRo]_vars
SpecFault == InitFault /\ [][NextCore]_vars
SpecFaultRace == InitFaultRace /\ [][NextMaking]_vars
SpecTrip == InitTrip /\ [][NextTrip]_vars
SpecDots == InitDots /\ [][NextCore]_vars
\* Every operation of the surface but unlink and rmdir, on a host whose I/O
\* may fail.
SpecCatch ==
    InitCatch /\ [][\E t \in Threads :
                       \/ Common(t) \/ Making(t) \/ Symlink(t) \/ CrTarget(t)
                       \/ Opendir(t) \/ OdBody(t) \/ Open(t) \/ OpBody(t) \/ OpTr(t)
                       \/ OnHandle(t) \/ OnAttr(t)
                       \/ Readlink(t) \/ LkBody(t) \/ Readdir(t)]_vars
\* create, mkdir, symlink, opendir, readdir and release, with nothing removed.
SpecRace ==
    InitRace /\ [][\E t \in Threads :
                      \/ Common(t) \/ Create(t) \/ Mkdir(t) \/ Symlink(t)
                      \/ CrCreate(t) \/ CrAdd(t) \/ CrUnlink(t) \/ CrDclose(t)
                      \/ CrUid(t) \/ CrGid(t) \/ CrNlink(t) \/ CrMode(t)
                      \/ CrTarget(t) \/ CrFlush(t)
                      \/ Opendir(t) \/ OdBody(t) \/ Readdir(t) \/ HBody(t)
                      \/ Release(t) \/ RlFlush(t) \/ RlClose(t)]_vars
\* open, read, write, ftruncate and release on one file.
SpecData ==
    InitData /\ [][\E t \in Threads :
                      \/ Common(t) \/ Open(t) \/ OpBody(t) \/ OpTr(t)
                      \/ OnHandle(t)
                      \/ Release(t) \/ RlFlush(t) \/ RlClose(t)]_vars


\* Every mutating operation on a path, ftruncate and release, one call at a
\* time on a host that does not fail; nothing is written through a handle.
InitFlush ==
    /\ workers = 1
    /\ readonly = FALSE
    /\ faults = 0
    /\ paths = PlainPaths(ConcDepth) \ {<<SEP>>}
    /\ obj = FileRepo
    /\ InitRest
    /\ prev = NoPrev(FALSE)
    /\ host = NoHost

SpecFlush ==
    InitFlush /\ [][\E t \in Threads :
                       \/ Common(t) \/ Core(t) \/ OpTr(t) \/ OnAttr(t)
                       \/ Ftruncate(t) \/ HBody(t)]_vars

\* A repository whose root holds a file a and a directory b.
ListRepo ==
    [i \in Ids |->
        CASE i = root_id -> DirObj({DirEntry(<<"a">>, 1, REGULAR_FILE),
                                    DirEntry(<<"b">>, 2, DIRECTORY)})
          [] i = 1 -> FileObj(<<1>>)
          [] i = 2 -> DirObj({})
          [] OTHER -> NoFile]

InitList ==
    /\ workers = 1
    /\ readonly = FALSE
    /\ faults = 0
    /\ paths = PlainPaths(ConcDepth)
    /\ obj = ListRepo
    /\ InitRest
    /\ prev = NoPrev(FALSE)
    /\ host = NoHost

\* opendir, open, readdir and release, between calls that remove entries.
SpecList ==
    InitList /\ [][\E t \in Threads :
                      \/ Common(t) \/ Opendir(t) \/ OdBody(t)
                      \/ Open(t) \/ OpBody(t) \/ OpTr(t)
                      \/ Readdir(t) \/ HBody(t)
                      \/ Unlink(t) \/ Rmdir(t) \/ RmEntry(t) \/ RmOpen(t)
                      \/ RmUnlink(t)
                      \/ Release(t) \/ RlFlush(t) \/ RlClose(t)]_vars

\* Every operation that tests the flavour of its object or its handle, on
\* handles to a file and to a directory and on no handle at all.
SpecFlavor ==
    InitList /\ [][\E t \in Threads :
                      \/ Common(t) \/ Opendir(t) \/ OdBody(t)
                      \/ Open(t) \/ OpBody(t) \/ OpTr(t)
                      \/ Truncate(t) \/ TrBody(t) \/ Readlink(t) \/ LkBody(t)
                      \/ Flush(t) \/ Readdir(t) \/ OnHandle(t)
                      \/ Release(t) \/ RlFlush(t) \/ RlClose(t)]_vars

\* Every operation on a path, with handles that stay open, on a host whose
\* I/O may fail.
InitRefs ==
    /\ workers = 1
    /\ readonly = FALSE
    /\ faults = MaxFaults
    /\ paths = PlainPaths(MaxDepth)
    /\ obj = FileRepo
    /\ InitRest
    /\ prev = NoPrev(FALSE)
    /\ host = NoHost

SpecRefs ==
    InitRefs /\  [][\E t \in Threads :
                       \/ Common(t) \/ Getattr(t) \/ GaBody(t)
                       \/ Opendir(t) \/ OdBody(t)
                       \/ Open(t) \/ OpBody(t) \/ OpTr(t)
                       \/ Create(t) \/ Mkdir(t) \/ Symlink(t)
                       \/ CrCreate(t) \/ CrAdd(t) \/ CrUnlink(t) \/ CrDclose(t)
                       \/ CrUid(t) \/ CrGid(t) \/ CrNlink(t) \/ CrMode(t)
                       \/ CrTarget(t) \/ CrFlush(t)
                       \/ Unlink(t) \/ Rmdir(t) \/ RmEntry(t) \/ RmOpen(t)
                       \/ RmUnlink(t)
                       \/ OnAttr(t) \/ Readlink(t) \/ LkBody(t)]_vars

\* --------------------------------------------------------- platform layer
\* The mount's variables, which no call of the platform layer touches.
mount == <<workers, readonly, faults, paths, obj, table, flock, fh, th, prev>>

\* Names in the one host directory the platform calls are aimed at.
HostNames == {"a", "b"}
\* What the host holds under a name: nothing, a directory, or a file.
HostKinds == {"none", "dir", "f1", "f2"}

NoException == [type |-> "none", err |-> 0]
\* throwWindowsException: the exception carries the Win32 code.
WindowsException(err) == [type |-> "WindowsException", err |-> err]
\* throwVFSException: the exception carries the errno.
VFSException(e) == [type |-> "VFSException", err |-> e]

ERROR_PATH_NOT_FOUND == 3
ERROR_ACCESS_DENIED == 5
ERROR_ALREADY_EXISTS == 183

\* The host's CreateDirectoryW: non-zero and the directory made, or zero and
\* the last error set; a name in use is refused with ERROR_ALREADY_EXISTS.
CreateDirectoryW(fs, p) ==
    IF fs[p] # "none"
    THEN {[rc |-> 0, err |-> ERROR_ALREADY_EXISTS, fs |-> fs]}
    ELSE {[rc |-> 1, err |-> 0, fs |-> [fs EXCEPT ![p] = "dir"]]}
         \cup {[rc |-> 0, err |-> e, fs |-> fs] :
                  e \in {ERROR_PATH_NOT_FOUND, ERROR_ACCESS_DENIED}}

MkdirNeverIgnores(err) == FALSE
\* The one failure OSService::mkdir does not raise.
MkdirIgnores(err) == err = ERROR_ALREADY_EXISTS

\* OSService::mkdir: every way the call can end, with the host afterwards.
OSMkdir(fs, p) ==
    {[fs |-> o.fs, rc |-> o.rc, err |-> o.err,
      raised |-> IF o.rc = 0 /\ ~MkdirIgnores(o.err)
                 THEN WindowsException(o.err)
                 ELSE NoException] : o \in CreateDirectoryW(fs, p)}

NoSysQuiet == NoException
\* What OSService::link, readlink and symlink do with every argument.
NoSys == VFSException("ENOSYS")

\* WindowsException::error_number's table: the errno of the Win32 codes
\* 0 to 267, the element of code c at position c + 1.
errorTable == <<
    "0", "EINVAL", "ENOENT", "ENOENT", "EMFILE", "EACCES", "EBADF",
    "ENOMEM", "ENOMEM", "ENOMEM", "E2BIG", "ENOEXEC", "EACCES", "EINVAL",
    "EFAULT", "ENOENT", "EACCES", "EXDEV", "ENOENT", "EROFS", "ENXIO",
    "EBUSY", "EIO", "EIO", "EIO", "EIO", "EIO", "ENXIO", "EBUSY", "EIO",
    "EIO", "EIO", "EACCES", "EACCES", "ENXIO", "ENFILE", "ENFILE",
    "EINVAL", "EINVAL", "ENOSPC", "EINVAL", "EINVAL", "EINVAL", "EINVAL",
    "EINVAL", "EINVAL", "EINVAL", "EINVAL", "EINVAL", "EINVAL", "ENODEV",
    "EBUSY", "EEXIST", "ENOENT", "EBUSY", "ENODEV", "EAGAIN", "EIO",
    "EIO", "EIO", "EINVAL", "EFBIG", "ENOSPC", "ENOENT", "ENOENT",
    "EACCES", "ENODEV", "ENOENT", "ENFILE", "EIO", "EAGAIN", "EINVAL",
    "EAGAIN", "EINVAL", "EINVAL", "EINVAL", "EINVAL", "EINVAL", "EINVAL",
    "EINVAL", "EEXIST", "EINVAL", "ENOSPC", "EIO", "ENFILE", "EEXIST",
    "EPERM", "EINVAL", "EIO", "EAGAIN", "EINVAL", "EINVAL", "EINVAL",
    "EINVAL", "EINVAL", "EINVAL", "EINVAL", "EINVAL", "EINVAL", "EINVAL",
    "EINVAL", "EINVAL", "EINVAL", "EINVAL", "EINVAL", "EINVAL", "EINVAL",
    "EXDEV", "EAGAIN", "EPIPE", "ENOENT", "EINVAL", "ENOSPC", "EMFILE",
    "EBADF", "EFAULT", "EINVAL", "EINVAL", "EINVAL", "EINVAL", "EINVAL",
    "EINVAL", "EINVAL", "ENOENT", "EINVAL", "EINVAL", "EINVAL", "EINVAL",
    "ECHILD", "ECHILD", "EBADF", "EINVAL", "ESPIPE", "EINVAL", "EINVAL",
    "EINVAL", "EINVAL", "EINVAL", "EINVAL", "EINVAL", "EINVAL", "EINVAL",
    "EAGAIN", "EINVAL", "EINVAL", "EEXIST", "EINVAL", "EINVAL", "EINVAL",
    "EINVAL", "EINVAL", "EINVAL", "EINVAL", "EINVAL", "EINVAL", "EINVAL",
    "EINVAL", "EINVAL", "EACCES", "EINVAL", "EINVAL", "ENOENT", "EINVAL",
    "EINVAL", "EINVAL", "EINVAL", "EINVAL", "EACCES", "EINVAL", "EINVAL",
    "EINVAL", "EINVAL", "EINVAL", "EINVAL", "EINVAL", "EINVAL", "EINVAL",
    "EINVAL", "EINVAL", "EINVAL", "EINVAL", "EINVAL", "EINVAL", "EEXIST",
    "ECHILD", "EINVAL", "EINVAL", "EINVAL", "EINVAL", "EINVAL", "EINVAL",
    "EINVAL", "EINVAL", "EINVAL", "EINVAL", "EINVAL", "EINVAL", "EINVAL",
    "EINVAL", "EINVAL", "EINVAL", "EINVAL", "EINVAL", "EINVAL", "EINVAL",
    "EINVAL", "ENAMETOOLONG", "EINVAL", "EINVAL", "EINVAL", "EINVAL",
    "EINVAL", "EINVAL", "EINVAL", "EINVAL", "EINVAL", "EINVAL", "EINVAL",
    "EINVAL", "EINVAL", "EINVAL", "EINVAL", "EINVAL", "EINVAL", "EINVAL",
    "EINVAL", "EINVAL", "EINVAL", "EINVAL", "EINVAL", "EPIPE", "EAGAIN",
    "EPIPE", "EPIPE", "EINVAL", "EINVAL", "EINVAL", "EINVAL", "EINVAL",
    "EINVAL", "EINVAL", "EINVAL", "EINVAL", "EINVAL", "EINVAL", "EINVAL",
    "EINVAL", "EINVAL", "EINVAL", "EINVAL", "EINVAL", "EINVAL", "EINVAL",
    "EINVAL", "EINVAL", "EINVAL", "EINVAL", "EINVAL", "EINVAL", "EINVAL",
    "EINVAL", "EINVAL", "EINVAL", "EINVAL", "EINVAL", "EINVAL", "EINVAL",
    "ENOTDIR"
>>

\* sizeof(int) of the Windows build.
sizeof_int == 4
\* sizeof(errorTable): the size of the table in bytes.
sizeof_errorTable == Len(errorTable) * sizeof_int

\* What a read past the table's last element may give.
StrayInts == {"0", "EPERM", "EINVAL", "other"}

\* WindowsException::error_number: the values the call may return, and
\* whether it reads the table past its last element.
error_number(err) ==
    IF err >= 0 /\ err < sizeof_errorTable
    THEN IF err < Len(errorTable)
         THEN [rets |-> {errorTable[err + 1]}, past |-> FALSE]
         ELSE [rets |-> StrayInts, past |-> TRUE]
    ELSE [rets |-> {"EPERM"}, past |-> FALSE]

\* A call that has returned or raised: its operation, its arguments, the
\* host's answer, what was raised, and the host as it was before the call.
HostCall(op, a, b, rc, err, raised, pre) ==
    [op |-> op, a |-> a, b |-> b, rc |-> rc, err |-> err, raised |-> raised,
     pre |-> pre]

WinMkdir ==
    /\ host.k = "fs"
    /\ \E p \in HostNames : \E o \in OSMkdir(host.fs, p) :
           host' = [host EXCEPT !.fs = o.fs,
                                !.call = HostCall("mkdir", p, p, o.rc, o.err,
                                                  o.raised, host.fs)]
    /\ UNCHANGED mount

\* OSService::link, OSService::symlink and OSService::readlink.
WinLinks ==
    /\ host.k = "fs"
    /\ \E op \in {"link", "symlink", "readlink"} : \E a, b \in HostNames :
           host' = [host EXCEPT !.call = HostCall(op, a, b, 1, 0, NoSys,
                                                  host.fs)]
    /\ UNCHANGED mount

\* ---- WindowsFileStream
\* The largest DWORD, scaled down: a DWORD holds 0..MAX_SINGLE_BLOCK.
MAX_SINGLE_BLOCK == 2
\* static_cast<DWORD>(x)
DWORD(x) == x % (MAX_SINGLE_BLOCK + 1)
\* x >> 32, the DWORD being 32 bits wide
HighPart(x) == x \div (MAX_SINGLE_BLOCK + 1)

ERROR_HANDLE_EOF == 38

\* The file position the host takes from OVERLAPPED.Offset and .OffsetHigh.
OverlappedAt(offset) ==
    DWORD(offset) + DWORD(HighPart(offset)) * (MAX_SINGLE_BLOCK + 1)

\* The host's ReadFile on a disk file: the bytes from the position up to the
\* requested count or the end of the file; at or past the end it fails with
\* ERROR_HANDLE_EOF; it may fail for another reason.
ReadFile(data, at, length) ==
    {IF at >= Len(data)
     THEN [ok |-> FALSE, err |-> ERROR_HANDLE_EOF, bytes |-> <<>>]
     ELSE [ok |-> TRUE, err |-> 0,
           bytes |-> SubSeq(data, at + 1, Min(Len(data), at + length))],
     [ok |-> FALSE, err |-> ERROR_ACCESS_DENIED, bytes |-> <<>>]}

\* WindowsFileStream::read32: the count read with the bytes, or the raise.
read32(data, offset, length) ==
    {IF ~o.ok
     THEN IF o.err = ERROR_HANDLE_EOF
          THEN [n |-> 0, bytes |-> <<>>, raised |-> NoException]
          ELSE [n |-> 0, bytes |-> <<>>, raised |-> WindowsException(o.err)]
     ELSE [n |-> Len(o.bytes), bytes |-> o.bytes, raised |-> NoException] :
        o \in ReadFile(data, OverlappedAt(offset), length)}

\* The file with the bytes of input laid over it from position at on; a gap
\* between the old end and at reads as zero bytes.
Overlay(data, at, input) ==
    [i \in 1..(IF Len(input) = 0 THEN Len(data)
               ELSE Max(Len(data), at + Len(input))) |->
        IF i > at /\ i <= at + Len(input) THEN input[i - at]
        ELSE IF i <= Len(data) THEN data[i] ELSE 0]

\* The host's WriteFile: everything written, one byte less than asked
\* written, or a failure.
WriteFile(data, at, input) ==
    {[ok |-> TRUE, err |-> 0, n |-> Len(input), data |-> Overlay(data, at, input)],
     [ok |-> FALSE, err |-> ERROR_ACCESS_DENIED, n |-> 0, data |-> data]}
    \cup (IF Len(input) = 0 THEN {}
          ELSE {[ok |-> TRUE, err |-> 0, n |-> Len(input) - 1,
                 data |-> Overlay(data, at,
                                  SubSeq(input, 1, Len(input) - 1))]})

\* WindowsFileStream::write32: the file afterwards and the raise.
write32(data, offset, input) ==
    {[data |-> o.data,
      raised |-> IF ~o.ok THEN WindowsException(o.err)
                 ELSE IF o.n # Len(input) THEN VFSException("EIO")
                 ELSE NoException] :
        o \in WriteFile(data, OverlappedAt(offset), input)}

AdvanceNot(p, n) == p

\* offset += n; output or input = static_cast<char*>(...) + n
Advance(p, n) == p + n

ZerosNot(n) == [i \in 1..n |-> 1]

\* std::vector<byte> zeros(n)
Zeros(n) == [i \in 1..n |-> 0]

\* The files a stream is opened on hold at most this many bytes.
MaxFile == 6

\* A stream before its call.
StreamIdle(data) ==
    [k |-> "stream", data |-> data, pc |-> "idle", op |-> "none",
     offset |-> 0, length |-> 0, pos |-> 0, buf |-> <<>>, total |-> 0,
     writes |-> 0, raised |-> NoException,
     data0 |-> data, offset0 |-> 0, length0 |-> 0, input0 |-> <<>>]

\* WindowsFileStream::read is called.
WinRead ==
    /\ host.k = "stream" /\ host.pc = "idle"
    /\ \E offset \in 0..MaxFile, length \in 0..MaxFile :
           host' = [StreamIdle(host.data) EXCEPT
                       !.pc = "read", !.op = "read",
                       !.offset = offset, !.length = length,
                       !.offset0 = offset, !.length0 = length]
    /\ UNCHANGED mount

\* One pass of read's loop: while (length > MAX_SINGLE_BLOCK).
WinReadChunk ==
    /\ host.k = "stream" /\ host.pc = "read"
    /\ host.length > MAX_SINGLE_BLOCK
    /\ \E o \in read32(host.data, host.offset, MAX_SINGLE_BLOCK) :
           host' = IF o.raised # NoException
                   THEN [host EXCEPT !.pc = "done", !.raised = o.raised]
                   ELSE IF o.n = 0
                   THEN [host EXCEPT !.pc = "done"]
                   ELSE [host EXCEPT !.length = @ - o.n,
                                     !.offset = Advance(@, o.n),
                                     !.buf = @ \o o.bytes,
                                     !.total = @ + o.n]
    /\ UNCHANGED mount

\* read after the loop: total += read32(output, offset, DWORD(length)).
WinReadLast ==
    /\ host.k = "stream" /\ host.pc = "read"
    /\ ~(host.length > MAX_SINGLE_BLOCK)
    /\ \E o \in read32(host.data, host.offset, DWORD(host.length)) :
           host' = IF o.raised # NoException
                   THEN [host EXCEPT !.pc = "done", !.raised = o.raised]
                   ELSE [host EXCEPT !.pc = "done",
                                     !.buf = @ \o o.bytes,
                                     !.total = @ + o.n]
    /\ UNCHANGED mount

\* The bytes of a payload of the given length.
Payload(n) == [i \in 1..n |-> 10 + i]

\* WindowsFileStream::write is called.
WinWrite ==
    /\ host.k = "stream" /\ host.pc = "idle"
    /\ \E offset \in 0..MaxFile, length \in 0..MaxFile :
           /\ offset + length <= MaxFile
           /\ host' = [StreamIdle(host.data) EXCEPT
                          !.pc = "write", !.op = "write",
                          !.offset = offset, !.length = length,
                          !.buf = Payload(length),
                          !.offset0 = offset, !.length0 = length,
                          !.input0 = Payload(length)]
    /\ UNCHANGED mount

\* One pass of write's loop: while (length > MAX_SINGLE_BLOCK).
WinWriteChunk ==
    /\ host.k = "stream" /\ host.pc = "write"
    /\ host.length > MAX_SINGLE_BLOCK
    /\ \E o \in write32(host.data, host.offset,
                         SubSeq(host.buf, host.pos + 1,
                                host.pos + MAX_SINGLE_BLOCK)) :
           host' = IF o.raised # NoException
                   THEN [host EXCEPT !.pc = "done", !.raised = o.raised,
                                     !.data = o.data, !.writes = @ + 1]
                   ELSE [host EXCEPT !.data = o.data, !.writes = @ + 1,
                                     !.length = @ - MAX_SINGLE_BLOCK,
                                     !.offset = Advance(@, MAX_SINGLE_BLOCK),
                                     !.pos = Advance(@, MAX_SINGLE_BLOCK)]
    /\ UNCHANGED mount

\* write after the loop: write32(input, offset, DWORD(length)).
WinWriteLast ==
    /\ host.k = "stream" /\ host.pc = "write"
    /\ ~(host.length > MAX_SINGLE_BLOCK)
    /\ \E o \in write32(host.data, host.offset,
                         SubSeq(host.buf, host.pos + 1,
                                host.pos + DWORD(host.length))) :
           host' = [host EXCEPT !.pc = "done", !.raised = o.raised,
                                !.data = o.data, !.writes = @ + 1]
    /\ UNCHANGED mount

\* WindowsFileStream::resize: size(), then write of the zeros from the old
\* end on, or SetFilePointerEx and SetEndOfFile, or nothing.
WinResize ==
    /\ host.k = "stream" /\ host.pc = "idle"
    /\ \E len \in 0..MaxFile, failed \in {"nothing", "GetFileSizeEx", "SetEndOfFile"} :
           LET sz == Len(host.data)
               h == [StreamIdle(host.data) EXCEPT !.op = "resize",
                                                  !.length0 = len]
               raise == [h EXCEPT !.pc = "done",
                                  !.raised = WindowsException(ERROR_ACCESS_DENIED)]
           IN  host' = IF failed = "GetFileSizeEx" THEN raise
                       ELSE IF len > sz
                       THEN [h EXCEPT !.pc = "write", !.offset = sz,
                                      !.length = len - sz,
                                      !.buf = Zeros(len - sz)]
                       ELSE IF len < sz
                       THEN IF failed = "SetEndOfFile" THEN raise
                            ELSE [h EXCEPT !.pc = "done",
                                           !.data = SubSeq(@, 1, len)]
                       ELSE [h EXCEPT !.pc = "done"]
    /\ UNCHANGED mount

\* ---- WindowsDirectoryTraverser
ERROR_FILE_NOT_FOUND == 2
ERROR_NO_MORE_FILES == 18

\* The names a host directory may list, and the listings: every order of
\* every choice of them.
DirNames == {".", "..", "a", "b"}
Listings ==
    {l \in UNION {[1..n -> DirNames] : n \in 0..Cardinality(DirNames)} :
        \A i, j \in DOMAIN l : l[i] = l[j] => i = j}

\* How often next returns on one traverser.
MaxCalls == 6

\* A host directory that no traverser has been made for.
TravIdle(list) ==
    [k |-> "trav", list |-> list, pc |-> "none", idx |-> 0, cur |-> "",
     out |-> <<>>, last |-> "none", calls |-> 0, raised |-> NoException]

\* create_traverser and the constructor: FindFirstFileW puts the first entry
\* of the listing into m_data, or fails when there is none.
WinTraverser ==
    /\ host.k = "trav" /\ host.pc = "none"
    /\ host' = IF host.list = <<>>
               THEN [host EXCEPT !.pc = "failed",
                                 !.raised = WindowsException(ERROR_FILE_NOT_FOUND)]
               ELSE [host EXCEPT !.pc = "idle", !.idx = 1, !.cur = host.list[1]]
    /\ UNCHANGED mount

\* next is called.
WinNext ==
    /\ host.k = "trav" /\ host.pc = "idle"
    /\ host.calls < MaxCalls
    /\ host' = [host EXCEPT !.pc = "next", !.last = "none",
                            !.raised = NoException]
    /\ UNCHANGED mount

ConsumedNot(name) == name

\* m_data.cFileName[0] = L'.'; m_data.cFileName[1] = 0
Consumed(name) == "."

\* next: one pass of the loop over "." and "..", with FindNextFileW moving
\* to the following entry of the listing, ending the listing or failing; or
\* the return of the name in m_data.
WinNextStep ==
    /\ host.k = "trav" /\ host.pc = "next"
    /\ IF host.cur = "." \/ host.cur = ".."
       THEN \/ /\ host.idx < Len(host.list)
               /\ host' = [host EXCEPT !.idx = @ + 1,
                                       !.cur = host.list[host.idx + 1]]
            \/ /\ host.idx >= Len(host.list)
               /\ host' = [host EXCEPT !.pc = "idle", !.last = "false",
                                       !.calls = @ + 1]
            \/ host' = [host EXCEPT
                           !.pc = "idle",
                           !.raised = WindowsException(ERROR_ACCESS_DENIED)]
       ELSE host' = [host EXCEPT !.pc = "idle", !.last = "true",
                                 !.calls = @ + 1,
                                 !.out = Append(@, host.cur),
                                 !.cur = Consumed(host.cur)]
    /\ UNCHANGED mount

WinErrorNumber ==
    /\ host.k = "errno"
    /\ host.ret = "none"
    /\ \E v \in error_number(host.err).rets :
           host' = [host EXCEPT !.ret = v, !.past = error_number(host.err).past]
    /\ UNCHANGED mount

\* The Win32 codes handed to error_number range up to this one.
MaxWinCode == 1100

\* ------------------------------------------------------------------ rename
\* The host's DeleteFileW: a file is deleted unless the host refuses (in use,
\* read-only); a directory and a missing name are refused.
DeleteFileW(fs, p) ==
    CASE fs[p] = "none" -> {[rc |-> 0, err |-> ERROR_FILE_NOT_FOUND, fs |-> fs]}
      [] fs[p] = "dir" -> {[rc |-> 0, err |-> ERROR_ACCESS_DENIED, fs |-> fs]}
      [] OTHER -> {[rc |-> 1, err |-> 0, fs |-> [fs EXCEPT ![p] = "none"]],
                   [rc |-> 0, err |-> ERROR_ACCESS_DENIED, fs |-> fs]}

\* The host's MoveFileW: it never replaces an existing destination.
MoveFileW(fs, a, b) ==
    CASE fs[a] = "none" -> {[rc |-> 0, err |-> ERROR_FILE_NOT_FOUND, fs |-> fs]}
      [] a = b -> {[rc |-> 1, err |-> 0, fs |-> fs]}
      [] fs[b] # "none" -> {[rc |-> 0, err |-> ERROR_ALREADY_EXISTS, fs |-> fs]}
      [] OTHER -> {[rc |-> 1, err |-> 0,
                    fs |-> [fs EXCEPT ![a] = "none", ![b] = fs[a]]],
                   [rc |-> 0, err |-> ERROR_ACCESS_DENIED, fs |-> fs]}

\* OSService::rename: DeleteFileW(wb) with its result dropped, then
\* CHECK_CALL(MoveFileW(wa, wb)).
OSRename(fs, a, b) ==
    {[fs |-> m.fs, rc |-> m.rc, err |-> m.err,
      raised |-> IF m.rc = 0 THEN WindowsException(m.err) ELSE NoException] :
         m \in UNION {MoveFileW(d.fs, a, b) : d \in DeleteFileW(fs, b)}}

WinRename ==
    /\ host.k = "fs"
    /\ \E a \in HostNames, b \in HostNames : \E o \in OSRename(host.fs, a, b) :
           host' = [host EXCEPT !.fs = o.fs,
                                !.call = HostCall("rename", a, b, o.rc, o.err,
                                                  o.raised, host.fs)]
    /\ UNCHANGED mount

\* ------------------------------------------------------------ time stamps
\* A long long is kept as four 16-bit limbs, least significant first, so that
\* the 64-bit sums and the two DWORD halves of a FILETIME have their width.
Limb == 2 ^ 16

\* The long long of a value small enough to be written directly.
Int64(x) ==
    <<x % Limb, (x \div Limb) % Limb,
      IF x < 0 THEN Limb - 1 ELSE 0, IF x < 0 THEN Limb - 1 ELSE 0>>

\* Two's complement sum of two long longs.
Add64(a, b) ==
    LET s1 == a[1] + b[1]
        s2 == a[2] + b[2] + (s1 \div Limb)
        s3 == a[3] + b[3] + (s2 \div Limb)
        s4 == a[4] + b[4] + (s3 \div Limb)
    IN  <<s1 % Limb, s2 % Limb, s3 % Limb, s4 % Limb>>

Sub64(a, b) ==
    Add64(a, Add64(<<Limb - 1 - b[1], Limb - 1 - b[2],
                     Limb - 1 - b[3], Limb - 1 - b[4]>>, <<1, 0, 0, 0>>))

\* The value of a long long whose upper half is its sign extension.
Value64(ll) ==
    IF ll[4] >= Limb \div 2 THEN (ll[2] - Limb) * Limb + ll[1]
    ELSE ll[2] * Limb + ll[1]

\* The / and % of C++ on long long: the quotient is truncated towards zero and
\* the remainder has the sign of the dividend.
Quot(a, b) == IF a >= 0 THEN a \div b ELSE -((-a) \div b)
Rem(a, b) == a - b * Quot(a, b)

\* 116444736000000000LL, the 100 ns ticks from 1601 to 1970: 0x019DB1DED53E8000.
EPOCH_TICKS == <<32768, 54590, 45534, 413>>

FACTOR == 10000000

\* filetime_to_unix_time.
filetime_to_unix_time(ft) ==
    LET ll == Sub64(Add64(<<0, 0, ft.dwHighDateTime[1], ft.dwHighDateTime[2]>>,
                          <<ft.dwLowDateTime[1], ft.dwLowDateTime[2], 0, 0>>),
                    EPOCH_TICKS)
    IN  [tv_sec |-> Quot(Value64(ll), FACTOR),
         tv_nsec |-> Rem(Value64(ll), FACTOR) * 100]

\* unix_time_to_filetime: (DWORD)ll and (DWORD)(ll >> 32).
unix_time_to_filetime(t) ==
    LET ll == Add64(Int64(t.tv_sec * FACTOR + Quot(t.tv_nsec, 100)), EPOCH_TICKS)
    IN  [dwLowDateTime |-> <<ll[1], ll[2]>>, dwHighDateTime |-> <<ll[3], ll[4]>>]

\* The seconds of the time stamps converted lie within this many of 1970.
MaxSec == 3

\* Whole multiples of 100 ns within a second.
NsecArgs == {0, 100, 500000000, 999999900}

TimeIdle(t) ==
    [k |-> "time", pc |-> "unix", t |-> t,
     ft |-> [dwLowDateTime |-> <<0, 0>>, dwHighDateTime |-> <<0, 0>>],
     out |-> [tv_sec |-> 0, tv_nsec |-> 0]]

\* A time stamp is handed to the host (utimens) ...
WinSetTime ==
    /\ host.k = "time"
    /\ host.pc = "unix"
    /\ host' = [host EXCEPT !.pc = "filetime", !.ft = unix_time_to_filetime(host.t)]
    /\ UNCHANGED mount

\* ... and read back (stat).
WinGetTime ==
    /\ host.k = "time"
    /\ host.pc = "filetime"
    /\ host' = [host EXCEPT !.pc = "back", !.out = filetime_to_unix_time(host.ft)]
    /\ UNCHANGED mount

\* The states the platform layer is exercised from.
InitWin ==
    /\ workers = 1
    /\ readonly = FALSE
    /\ faults = 0
    /\ paths = {}
    /\ obj = EmptyRepo
    /\ InitRest
    /\ prev = NoPrev(FALSE)
    /\ host \in {[k |-> "fs", fs |-> f,
                  call |-> HostCall("none", "a", "a", 1, 0, NoException, f)] :
                     f \in [HostNames -> HostKinds]}
            \cup {[k |-> "errno", err |-> e, ret |-> "none", past |-> FALSE] :
                     e \in 0..MaxWinCode}
            \cup {StreamIdle([i \in 1..n |-> i]) : n \in 0..MaxFile}
            \cup {TravIdle(l) : l \in Listings}
            \cup {TimeIdle([tv_sec |-> sec, tv_nsec |-> ns]) :
                     sec \in (-MaxSec)..MaxSec, ns \in NsecArgs}

NextWin ==
    \/ WinMkdir \/ WinLinks \/ WinErrorNumber
    \/ WinRead \/ WinReadChunk \/ WinReadLast
    \/ WinWrite \/ WinWriteChunk \/ WinWriteLast
    \/ WinResize
    \/ WinTraverser \/ WinNext \/ WinNextStep
    \/ WinSetTime \/ WinGetTime
    \/ WinRename

SpecWin == InitWin /\ [][NextWin]_vars
\* Every call of the platform layer that has begun is carried on.
SpecWinFair == SpecWin /\ WF_vars(NextWin)


\* ------------------------------------------------------------------ claims
\* The pointers to the object id held by guards and by handles.
GuardsOn(id) ==
    Cardinality({t \in Threads : ~th[t].g1.null /\ th[t].g1.id = id})
        + Cardinality({t \in Threads : ~th[t].g2.null /\ th[t].g2.id = id})
        + Cardinality({t \in Threads : ~th[t].tmp.null /\ th[t].tmp.id = id})

HandlesOn(id) == Cardinality({s \in Slots : ~fh[s].null /\ fh[s].id = id})

\* C1: in every reachable state each guard and each driver handle that refers
\* to an object id refers to the one instance the FileTable holds for that id.
C1_OneInstancePerId ==
    \A r \in AllRefs :
        ~r.null => table[r.id].present /\ table[r.id].inst = r.inst

\* C1 witness: a handle and a guard of a thread refer to the same object at once.
C1_Witness ==
    \E s \in Slots, t \in Threads :
        /\ ~fh[s].null
        /\ ~th[t].g1.null
        /\ th[t].g1.id = fh[s].id
        /\ table[fh[s].id].rc >= 2

\* C2: the reference count of every object is the number of guards and handles
\* on it: each successful open, create or opendir leaves one reference with the
\* handle, each release gives one back, and an object with a handle is live.
C2_RefsBalanced ==
    /\ \A id \in Ids : table[id].rc = GuardsOn(id) + HandlesOn(id)
    /\ \A s \in Slots : ~fh[s].null => table[fh[s].id].present

\* C3: once unlink has returned 0 and no handle or guard is left on the object
\* it removed, the object has no table entry and no host files.
C3_UnlinkedGone ==
    \A t \in Threads :
        (/\ th[t].pc = "done"
         /\ th[t].op = "unlink"
         /\ th[t].ret = Ok(0)
         /\ GuardsOn(th[t].id) + HandlesOn(th[t].id) = 0)
        => ~table[th[t].id].present /\ ~obj[th[t].id].present

\* C4: while an object has references its host files are present, read and
\* write through a handle on a regular file succeed, and host files disappear
\* only in the step that closes the last reference of an object with nlink 0.
C4_State ==
    /\ \A id \in Ids : table[id].present => obj[id].present
    /\ \A t \in Threads :
          (th[t].pc = "done" /\ th[t].op \in {"read", "write"}
              /\ th[t].ret.e \notin {"EINVAL", "EPERM"})
          => th[t].ret.e = "OK"

C4_Step ==
    \A id \in Ids :
        (obj[id].present /\ ~obj'[id].present)
        => /\ table[id].rc = 1
           /\ obj[id].nlink = 0
           /\ ~table'[id].present

C4_UnlinkOnlyMarks == [](C4_State) /\ [][C4_Step]_vars

\* C4 witness: a read through a handle has succeeded on an unlinked object.
C4_Witness ==
    \E t \in Threads :
        /\ th[t].pc = "done"
        /\ th[t].op = "read"
        /\ th[t].ret.e = "OK"
        /\ ~fh[th[t].slot].null
        /\ obj[fh[th[t].slot].id].present
        /\ obj[fh[th[t].slot].id].nlink = 0


\* The components a path argument names, read off the spelling rules.
Canon(path) == CHOOSE c \in CompSeqs(MaxDepth) : path \in Spellings(c) \cup {Render(c)}

\* The walk of section 4.7 over the repository o from directory id, for the
\* components k .. upto of c; every component before Len(c) must be a directory.
RECURSIVE RefWalk(_, _, _, _, _)
RefWalk(o, c, k, upto, id) ==
    IF k > upto THEN [e |-> "OK", id |-> id]
    ELSE IF ~HasEntry(o[id], c[k]) THEN [e |-> "ENOENT", id |-> id]
    ELSE IF k < Len(c) /\ EntryOf(o[id], c[k]).type # DIRECTORY
         THEN [e |-> "ENOTDIR", id |-> id]
         ELSE RefWalk(o, c, k + 1, upto, EntryOf(o[id], c[k]).id)

RefTarget(o, path) == RefWalk(o, Canon(path), 1, Len(Canon(path)), root_id)
RefParent(o, path) ==
    RefWalk(o, Canon(path), 1, Max(Len(Canon(path)), 1) - 1, root_id)
RefLast(path) ==
    IF Canon(path) = <<>> THEN <<>> ELSE Canon(path)[Len(Canon(path))]

Returned(t, ops) == th[t].pc = "done" /\ th[t].op \in ops

\* C5: create, mkdir or symlink on a path whose final component exists in the
\* parent directory returns -EEXIST and leaves the parent's entries as they
\* were; on a name the parent does not hold it returns 0.
C5_ExistingNameRefused ==
    \A t \in Threads :
        (Returned(t, CreateOps) /\ RefParent(th[t].pre, th[t].path).e = "OK")
        => LET p == RefParent(th[t].pre, th[t].path).id
               name == RefLast(th[t].path)
           IN  IF HasEntry(th[t].pre[p], name)
               THEN /\ th[t].ret = Err("EEXIST")
                    /\ obj[p].entries = th[t].pre[p].entries
               ELSE th[t].ret = Ok(0)

\* C5 witness: a create of a name its parent already held has returned -EEXIST.
C5_Witness ==
    \E t \in Threads :
        /\ Returned(t, {"create"})
        /\ th[t].ret = Err("EEXIST")
        /\ RefParent(th[t].pre, th[t].path).e = "OK"
        /\ HasEntry(th[t].pre[RefParent(th[t].pre, th[t].path).id], RefLast(th[t].path))

\* C6: when create, mkdir or symlink fails at adding the directory entry, the
\* new object has neither a table entry nor host files once the call returns.
C6_FailedAddPurged ==
    \A t \in Threads :
        (Returned(t, CreateOps) /\ th[t].note = "add_failed")
        => ~table[th[t].newid].present /\ ~obj[th[t].newid].present

\* C7: when create, mkdir or symlink returns 0 the parent holds exactly one
\* entry for the name, it maps to the new id with the requested type, and the
\* new object has nlink 1, the caller's uid and gid, the type bits of its kind
\* with the caller's permission bits (0755 for a symlink), all flushed.
C7_Created ==
    \A t \in Threads :
        (Returned(t, CreateOps) /\ th[t].ret = Ok(0))
        => LET p == RefParent(th[t].pre, th[t].path).id
               name == RefLast(th[t].path)
               n == obj[th[t].newid]
           IN  /\ {e \in obj[p].entries : e.name = name}
                     = {DirEntry(name, th[t].newid, CreateType(th[t].op))}
               /\ n.present
               /\ n.type = CreateType(th[t].op)
               /\ n.nlink = 1
               /\ n.uid = CtxUid(t) /\ n.gid = CtxGid(t)
               /\ FmtOf(n.mode) = mode_for_type(CreateType(th[t].op))
               /\ ClearFmt(n.mode) = IF th[t].op = "symlink" THEN SymlinkPerm
                                      ELSE ClearFmt(th[t].arg)
               /\ ~table[th[t].newid].dirty
               /\ ~table[p].dirty

\* C7 witness: a mkdir below the root's child has returned 0.
C7_Witness ==
    \E t \in Threads :
        /\ Returned(t, {"mkdir"})
        /\ th[t].ret = Ok(0)
        /\ Len(Canon(th[t].path)) = 2

\* C8: an operation on an existing target returns what the walk from the root
\* gives: -ENOENT for a missing component, -ENOTDIR for a component before the
\* last that is no directory, the root for a path without components; and the
\* spelling of the separators makes no difference.
C8_Resolution ==
    \A t \in Threads :
        Returned(t, {"getattr", "opendir", "open"})
        => LET w == RefTarget(th[t].pre, th[t].path) IN
           /\ w.e # "OK" => th[t].ret = Err(w.e)
           /\ (w.e = "OK" /\ th[t].op = "getattr")
                 => th[t].ret = Ok(0) /\ th[t].id = w.id
           /\ (w.e = "OK" /\ th[t].op \in {"opendir", "open"})
                 => \/ th[t].ret.e \in {"ENOTDIR", "EPERM"} /\ fh[th[t].slot].null
                    \/ th[t].ret = Ok(0) /\ fh[th[t].slot].id = w.id

\* C8 witness: a path spelled with doubled separators ran into a file on its way.
C8_Witness ==
    \E t \in Threads :
        /\ Returned(t, {"getattr"})
        /\ th[t].path = RenderDouble(<<<<"a">>, <<"a">>>>)
        /\ th[t].ret = Err("ENOTDIR")

\* A call whose arguments name what it is to change: a handle on a regular
\* file, a path that resolves (to a regular file for truncate).
WellAimed(t) ==
    CASE th[t].op \in {"write", "ftruncate"} ->
            /\ ~fh[th[t].slot].null
            /\ obj[fh[th[t].slot].id].type = REGULAR_FILE
      [] th[t].op = "truncate" ->
            /\ RefTarget(th[t].pre, th[t].path).e = "OK"
            /\ th[t].pre[RefTarget(th[t].pre, th[t].path).id].type = REGULAR_FILE
      [] th[t].op \in {"chmod", "chown"} ->
            RefTarget(th[t].pre, th[t].path).e = "OK"
      [] OTHER -> TRUE

\* C9: on a read-only mount create, mkdir, unlink, rmdir, symlink, write,
\* truncate, ftruncate, chmod, chown and open for writing return -EROFS
\* (stated for the calls whose handle or path is valid).
C9_ReadOnlyRefuses ==
    \A t \in Threads :
        (/\ readonly
         /\ WellAimed(t)
         /\ \/ Returned(t, {"create", "mkdir", "unlink", "symlink", "write",
                            "truncate", "ftruncate", "chmod", "chown"})
            \/ Returned(t, {"open"}) /\ RequireWrite(th[t].flags))
        => th[t].ret = Err("EROFS")

\* C10: unlink or rmdir of a directory that holds an entry fails with
\* -ENOTEMPTY or -EEXIST and changes nothing.
C10_NonEmptyDirKept ==
    \A t \in Threads :
        (/\ Returned(t, {"unlink"})
         /\ Canon(th[t].path) # <<>>
         /\ RefTarget(th[t].pre, th[t].path).e = "OK"
         /\ th[t].pre[RefTarget(th[t].pre, th[t].path).id].type = DIRECTORY
         /\ th[t].pre[RefTarget(th[t].pre, th[t].path).id].entries # {})
        => th[t].ret.e \in {"ENOTEMPTY", "EEXIST"} /\ obj = th[t].pre


\* C11: mkdir(p) and then rmdir(p), both returning 0 with no other change in
\* between, on a parent that did not hold the name, leave the parent with the
\* entries it had and leave no host files of the directory made.
C11_MkdirRmdir ==
    \A t \in Threads :
        (/\ Returned(t, {"unlink"}) /\ th[t].ret = Ok(0)
         /\ prev.op = "mkdir" /\ prev.ret = Ok(0)
         /\ prev.path = th[t].path)
        => LET p == RefParent(prev.pre, prev.path).id IN
           /\ obj[p].entries = prev.pre[p].entries
           /\ ~obj[prev.id].present
           /\ ~table[prev.id].present

\* C11 witness: rmdir has returned 0 on the path the mkdir before it made
\* below a directory that is not the root.
C11_Witness ==
    \E t \in Threads :
        /\ Returned(t, {"unlink"}) /\ th[t].ret = Ok(0)
        /\ prev.op = "mkdir" /\ prev.ret = Ok(0)
        /\ prev.path = th[t].path
        /\ Len(Canon(prev.path)) = 2
        /\ ~HasEntry(prev.pre[RefParent(prev.pre, prev.path).id], RefLast(prev.path))

C13_ChmodThenGetattr ==
    \A t \in Threads :
        (/\ Returned(t, {"getattr"}) /\ th[t].ret = Ok(0)
         /\ prev.op = "chmod" /\ prev.ret = Ok(0)
         /\ prev.path = th[t].path)
        => /\ th[t].st % (PermMask + 1) = prev.mode % (PermMask + 1)
           /\ FmtOf(th[t].st) = FmtOf(prev.pre[th[t].id].mode)

C13_Witness ==
    \E t \in Threads :
        /\ Returned(t, {"getattr"}) /\ th[t].ret = Ok(0)
        /\ prev.op = "chmod" /\ prev.ret = Ok(0)
        /\ prev.path = th[t].path
        /\ prev.mode = S_IFLNK + 2 * PermMask + 1
        /\ prev.pre[th[t].id].mode = S_IFREG + 420
        /\ th[t].st = S_IFREG + PermMask

\* C14: a readlink(p, buf, size) with size >= 1 that returns after
\* symlink(t, p) returned 0, with no change in between, returns 0 and fills buf
\* with the first min(|t|, size - 1) bytes of t followed by zero bytes; with
\* size = 0 it returns -EINVAL in its first step and touches nothing.
C14_Readlink ==
    /\ [](\A t \in Threads :
            /\ (Returned(t, {"readlink"}) /\ th[t].size = 0)
                  => th[t].ret = Err("EINVAL")
            /\ (/\ Returned(t, {"readlink"}) /\ th[t].size >= 1
                /\ prev.op = "symlink" /\ prev.ret = Ok(0)
                /\ prev.path = th[t].path)
               => /\ th[t].ret = Ok(0)
                  /\ Len(th[t].buf) = th[t].size
                  /\ \A k \in 1..th[t].size :
                        th[t].buf[k] = IF k <= Len(prev.buf) /\ k <= th[t].size - 1
                                       THEN prev.buf[k] ELSE 0)
    /\ [][\A t \in Threads :
            (th[t].pc = "idle" /\ th'[t].op = "readlink" /\ th'[t].size = 0)
            => /\ th'[t].pc = "done"
               /\ UNCHANGED <<obj, table, flock, fh>>]_vars

\* C15: a thread whose next statement reads or writes an object's header or
\* streams (directory lookup, add, remove; stat; the setters; flush; read,
\* write, truncate; unlink(); Symlink get and set) holds that object's mutex.
C15_AccessUnderMutex ==
    \A t \in Threads :
        LET r == th[t]
            OnFirst == {"res_get", "cr_add", "rm_entry", "ga_body", "cm_body",
                        "co_body", "tr_body", "op_tr"}
            OnSecond == {"rm_unlink", "cr_unlink", "cr_uid", "cr_gid", "cr_nlink",
                         "cr_mode", "cr_target", "cr_flush"}
            OnHandleObj == {"h_body", "rl_flush"}
        IN  /\ r.pc \in OnFirst => flock[r.g1.id] = t
            /\ r.pc \in OnSecond => flock[r.g2.id] = t
            /\ r.pc \in OnHandleObj => flock[fh[r.slot].id] = t
            /\ (r.pc = "lk_body" /\ obj[r.g1.id].type = SYMLINK) => flock[r.g1.id] = t

\* C16: no thread holds two object mutexes, and a thread that is about to take
\* the FileTable mutex (open, create or close through the table) or about to
\* lock an object holds no object mutex.
C16_LockOrder ==
    \A t \in Threads :
        LET held == {i \in Ids : flock[i] = t}
            TablePcs == {"root_open", "res_open", "res_reset", "cr_create",
                         "cr_dclose", "rm_open", "ep_close", "rl_close"}
        IN  /\ Cardinality(held) <= 1
            /\ th[t].pc \in TablePcs \cup FileLockPcs => held = {}

C16_Witness ==
    \E t \in Threads : \E u \in Threads \ {t} :
        /\ th[t].pc = "rm_open" /\ th[t].op = "unlink"
        /\ \A i \in Ids : flock[i] # t
        /\ flock[th[t].g1.id] = u

\* C17: with nothing removed, a directory holds at most one entry per name; a
\* create, mkdir or symlink that resolved its parent directory (walked all the
\* components before the last) returns 0 or -EEXIST; the one that returned 0 owns
\* the entry of its name; the one that returned -EEXIST finds the name owned by
\* another id and its own object purged; two that have returned for one name
\* have not both returned 0; and a readdir lists no name twice.
C17_AtomicAdd ==
    /\ \A d \in Ids : \A e, f \in obj[d].entries : e.name = f.name => e = f
    /\ \A t \in Threads :
          /\ (Returned(t, CreateOps) /\ th[t].i = th[t].n + 1) =>
                LET r == th[t]
                    d == obj[RefParent(obj, r.path).id]
                IN  /\ r.ret \in {Ok(0), Err("EEXIST")}
                    /\ r.ret = Ok(0) =>
                          /\ HasEntry(d, r.last)
                          /\ EntryOf(d, r.last).id = r.newid
                          /\ obj[r.newid].present
                    /\ r.ret = Err("EEXIST") =>
                          /\ HasEntry(d, r.last)
                          /\ EntryOf(d, r.last).id # r.newid
                          /\ ~obj[r.newid].present
                          /\ ~table[r.newid].present
          /\ \A u \in Threads \ {t} :
                (/\ Returned(t, CreateOps) /\ Returned(u, CreateOps)
                 /\ th[t].path = th[u].path)
                => ~(th[t].ret = Ok(0) /\ th[u].ret = Ok(0))
          /\ (Returned(t, {"readdir"}) /\ th[t].ret = Ok(0)) =>
                \A j, k \in DOMAIN th[t].buf :
                    th[t].buf[j].name = th[t].buf[k].name => j = k

\* Two makers of one name under way at once: the winner has added its entry
\* and not yet returned, the loser holds its own new object and is refused.
C17_Witness ==
    \E t \in Threads : \E u \in Threads \ {t} :
        /\ th[t].op \in CreateOps /\ th[u].op \in CreateOps
        /\ th[t].path = th[u].path
        /\ th[t].pc = "cr_dclose"
        /\ th[u].pc = "cr_unlink" /\ th[u].ret = Err("EEXIST")
        /\ table[th[t].newid].present /\ table[th[u].newid].present

\* C18: for every entry of every directory whose object exists, the entry's
\* type is the type in the S_IFMT bits of the object's mode, whatever mode bits
\* create, mkdir and chmod were called with.
C18_EntryTypeIsModeType ==
    \A d \in Ids : \A e \in obj[d].entries :
        (obj[d].present /\ obj[e.id].present)
        => FmtOf(obj[e.id].mode) = mode_for_type(e.type)

C18_Witness ==
    \E d \in Ids : \E e \in obj[d].entries :
        /\ obj[d].present /\ obj[e.id].present
        /\ e.type = DIRECTORY
        /\ prev.op = "chmod" /\ prev.ret = Ok(0) /\ FmtOf(prev.mode) = S_IFLNK
        /\ obj[e.id].mode = S_IFDIR + PermMask

\* C19: no directory stores an entry named "." or "..", whatever paths are
\* passed to create, mkdir and symlink.
C19_NoDotEntries ==
    \A d \in Ids : \A e \in obj[d].entries :
        e.name \notin {<<".">>, <<".", ".">>}

C21_MkdirExisting ==
    host.k = "fs" =>
        /\ host.call.op = "mkdir" =>
              /\ host.call.pre[host.call.a] # "none" =>
                    host.call.raised = NoException /\ host.fs = host.call.pre
              /\ (host.call.rc = 0 /\ host.call.err # ERROR_ALREADY_EXISTS) =>
                    /\ host.call.raised = WindowsException(host.call.err)
                    /\ host.fs = host.call.pre
        /\ \A p \in HostNames : \A o1 \in OSMkdir(host.fs, p) :
              o1.raised = NoException =>
                  \A o2 \in OSMkdir(o1.fs, p) :
                      o2.raised = NoException /\ o2.fs = o1.fs

C21_Witness ==
    /\ host.k = "fs"
    /\ host.call.op = "mkdir"
    /\ host.call.pre[host.call.a] = "dir"
    /\ host.call.rc = 0
    /\ host.call.raised = NoException

\* C22: OSService::link, symlink and readlink raise ENOSYS whatever their
\* arguments and leave the host as it was.
C22_NoLinks ==
    (host.k = "fs" /\ host.call.op \in {"link", "symlink", "readlink"}) =>
        host.call.raised = VFSException("ENOSYS") /\ host.fs = host.call.pre

C22_Witness ==
    /\ host.k = "fs"
    /\ host.call.op = "readlink"
    /\ host.call.raised.err = "ENOSYS"
    /\ host.call.pre["a"] = "f1"

\* C23: when create, mkdir, symlink, chmod, chown, truncate, ftruncate,
\* unlink, rmdir or open returns success, every object it changed has been
\* flushed since its last change, so that with one call at a time no object
\* in memory is left unflushed; release closes only after its flush.
C23_FlushedOnSuccess ==
    \A t \in Threads :
        /\ (/\ Returned(t, {"create", "mkdir", "symlink", "chmod", "chown",
                            "truncate", "ftruncate", "unlink", "rmdir", "open"})
            /\ th[t].ret = Ok(0))
           => \A id \in Ids : table[id].present => ~table[id].dirty
        /\ th[t].pc = "rl_close" => ~table[fh[th[t].slot].id].dirty

\* C24: readdir on a directory handle returns 0 and leaves every object as
\* it was; each call of the filler carries a different entry of the
\* directory with st_mode = mode_for_type(type); when the filler never
\* answers non-zero every entry is passed, and otherwise the call it refused
\* is the last one.
C24_ReaddirFills ==
    \A t \in Threads :
        (/\ Returned(t, {"readdir"})
         /\ ~fh[th[t].slot].null
         /\ obj[fh[th[t].slot].id].type = DIRECTORY)
        => LET calls == th[t].buf
               room == th[t].size
               E == th[t].pre[fh[th[t].slot].id].entries
               Shown == {[name |-> e.name, mode |-> mode_for_type(e.type)] : e \in E}
           IN  /\ th[t].ret = Ok(0)
               /\ obj = th[t].pre
               /\ \A k \in DOMAIN calls : calls[k] \in Shown
               /\ \A j, k \in DOMAIN calls : calls[j] = calls[k] => j = k
               /\ IF Cardinality(E) <= room
                  THEN {calls[k] : k \in DOMAIN calls} = Shown
                  ELSE Len(calls) = room + 1

\* C24 witness: the filler refused the first of two entries and readdir
\* returned 0 after that one call.
C24_Witness ==
    \E t \in Threads :
        /\ Returned(t, {"readdir"})
        /\ th[t].ret = Ok(0)
        /\ th[t].size = 0
        /\ Len(th[t].buf) = 1
        /\ Cardinality(obj[fh[th[t].slot].id].entries) = 2

\* C25: an operation aimed at an object of the wrong flavour, or at no
\* handle, fails with its own errno and changes no object and no handle:
\* read, write, flush on a handle that is no regular file and open on such a
\* path give -EPERM; truncate and ftruncate on a non-regular file and
\* readlink on a non-symlink give -EINVAL; opendir and readdir on a
\* non-directory give -ENOTDIR; read, write, flush, ftruncate, readdir and
\* release on a null handle give -EINVAL.
C25_State ==
    \A t \in Threads :
        LET r == th[t]
            h == fh[r.slot]
            x == RefTarget(r.pre, r.path)
            Refused(e) == r.ret = Err(e) /\ obj = r.pre
        IN  /\ (Returned(t, {"read", "write", "flush", "ftruncate", "readdir"})
                /\ h.null) => Refused("EINVAL")
            /\ (Returned(t, {"read", "write", "flush"}) /\ ~h.null
                /\ obj[h.id].type # REGULAR_FILE) => Refused("EPERM")
            /\ (Returned(t, {"ftruncate"}) /\ ~h.null
                /\ obj[h.id].type # REGULAR_FILE) => Refused("EINVAL")
            /\ (Returned(t, {"readdir"}) /\ ~h.null
                /\ obj[h.id].type # DIRECTORY) => Refused("ENOTDIR")
            /\ (Returned(t, {"open"}) /\ x.e = "OK"
                /\ r.pre[x.id].type # REGULAR_FILE)
               => Refused("EPERM") /\ fh[r.slot].null
            /\ (Returned(t, {"truncate"}) /\ x.e = "OK"
                /\ r.pre[x.id].type # REGULAR_FILE) => Refused("EINVAL")
            /\ (Returned(t, {"readlink"}) /\ r.size > 0 /\ x.e = "OK"
                /\ r.pre[x.id].type # SYMLINK) => Refused("EINVAL")
            /\ (Returned(t, {"opendir"}) /\ x.e = "OK"
                /\ r.pre[x.id].type # DIRECTORY)
               => Refused("ENOTDIR") /\ fh[r.slot].null

C25_Step ==
    \A t \in Threads :
        (/\ th[t].pc = "idle"
         /\ th'[t].pc # "idle"
         /\ th'[t].op \in HandleOps \cup {"release"}
         /\ (\/ fh[th'[t].slot].null
             \/ th'[t].op \in {"read", "write", "flush", "ftruncate"}
                /\ obj[fh[th'[t].slot].id].type # REGULAR_FILE
             \/ th'[t].op = "readdir"
                /\ obj[fh[th'[t].slot].id].type # DIRECTORY))
        => /\ th'[t].pc = "done"
           /\ th'[t].ret # Ok(0)
           /\ UNCHANGED <<obj, table, flock, fh>>

C26_ErrorNumber ==
    /\ Len(errorTable) = 268
    /\ \A c \in {2, 3} : errorTable[c + 1] = "ENOENT"
    /\ errorTable[5 + 1] = "EACCES" /\ errorTable[19 + 1] = "EROFS"
    /\ \A c \in {39, 112} : errorTable[c + 1] = "ENOSPC"
    /\ \A c \in {80, 145, 183} : errorTable[c + 1] = "EEXIST"
    /\ errorTable[267 + 1] = "ENOTDIR"
    /\ (host.k = "errno" /\ host.ret # "none") =>
          /\ ~host.past
          /\ host.ret = IF host.err <= 267 THEN errorTable[host.err + 1]
                        ELSE "EPERM"

\* C27: WindowsFileStream::read and write of any length, cut into chunks of
\* at most MAX_SINGLE_BLOCK bytes, give what one transfer of the whole
\* request gives: read returns the bytes of the file from the offset up to
\* the length or the end of the file, with their count, and write leaves the
\* payload in the file at the offset; read returns the bytes it has so far
\* when a chunk reads nothing; both loops come to an end.
C27_State ==
    (host.k = "stream" /\ host.pc = "done" /\ host.raised = NoException) =>
        /\ host.op = "read" =>
              /\ host.buf = SubSeq(host.data0, host.offset0 + 1,
                                   Min(Len(host.data0),
                                       host.offset0 + host.length0))
              /\ host.total = Len(host.buf)
              /\ host.data = host.data0
        /\ host.op = "write" =>
              host.data = Overlay(host.data0, host.offset0, host.input0)

C27_Step ==
    (/\ host.k = "stream" /\ host.pc = "read"
     /\ host.length > MAX_SINGLE_BLOCK
     /\ host.offset >= Len(host.data)
     /\ host'.raised = NoException)
    => /\ host'.pc = "done"
       /\ host'.total = host.total
       /\ host'.buf = host.buf

C27_ChunkedTransfer ==
    /\ []C27_State
    /\ [][C27_Step]_vars
    /\ (host.k = "stream" /\ host.pc \in {"read", "write"})
          ~> (host.k = "stream" /\ host.pc = "done")

\* C27 witness: a read of more than two chunks has returned every byte
\* asked for.
C27_Witness ==
    /\ host.k = "stream" /\ host.pc = "done" /\ host.op = "read"
    /\ host.raised = NoException
    /\ host.length0 > 2 * MAX_SINGLE_BLOCK
    /\ host.offset0 > 0
    /\ host.total = host.length0

\* C28: after resize(len) has returned, the file is len bytes long, its
\* bytes below min(old size, len) are the old ones, the bytes from the old
\* size up to len are zero, and with len equal to the old size nothing was
\* written.
C28_Resize ==
    (/\ host.k = "stream" /\ host.pc = "done" /\ host.op = "resize"
     /\ host.raised = NoException)
    => LET old == Len(host.data0)
           len == host.length0
       IN  /\ Len(host.data) = len
           /\ \A i \in 1..Min(old, len) : host.data[i] = host.data0[i]
           /\ \A i \in (old + 1)..len : host.data[i] = 0
           /\ len = old => host.writes = 0 /\ host.data = host.data0

\* C28 witness: a file that held bytes has grown by more than one chunk.
C28_Witness ==
    /\ host.k = "stream" /\ host.pc = "done" /\ host.op = "resize"
    /\ host.raised = NoException
    /\ Len(host.data0) > 0
    /\ host.length0 > Len(host.data0) + MAX_SINGLE_BLOCK
    /\ host.writes > 1

\* C29: the names WindowsDirectoryTraverser::next has returned are, at every
\* moment, the first entries of the host's listing other than "." and "..",
\* each once and in the host's order; next returns false only when all of
\* them have been returned, and no later call returns a name.
C29_Traverse ==
    host.k = "trav" =>
        LET RECURSIVE Real(_)
            Real(l) == IF l = <<>> THEN <<>>
                       ELSE IF Head(l) \in {".", ".."} THEN Real(Tail(l))
                       ELSE <<Head(l)>> \o Real(Tail(l))
            all == Real(host.list)
        IN  /\ Len(host.out) <= Len(all)
            /\ host.out = SubSeq(all, 1, Len(host.out))
            /\ host.last = "false" => host.out = all
            /\ (host.pc = "idle" /\ host.raised = NoException
                /\ host.calls > Len(all)) => host.last = "false"
            /\ host.last = "true" => host.calls = Len(host.out)

\* C29 witness: after "." and ".." were passed over and two names returned,
\* next has returned false, and false again on the call after that.
C29_Witness ==
    /\ host.k = "trav" /\ host.pc = "idle"
    /\ host.list = <<".", "a", "..", "b">>
    /\ host.out = <<"a", "b">>
    /\ host.last = "false"
    /\ host.calls = 4

Removing(t) ==
    \/ Common(t)
    \/ Getattr(t) \/ GaBody(t)
    \/ Mkdir(t)
    \/ CrCreate(t) \/ CrAdd(t) \/ CrUnlink(t) \/ CrDclose(t) \/ CrUid(t)
    \/ CrGid(t) \/ CrNlink(t) \/ CrMode(t) \/ CrFlush(t)
    \/ Unlink(t) \/ RmEntry(t) \/ RmOpen(t) \/ RmUnlink(t)

\* A thread inside an operation.
Running(t) == th[t].pc \notin {"idle", "done"}

\* Every thread inside an operation is scheduled again, and a thread waiting
\* for a mutex that is released again and again gets it in the end.  The
\* driver is free to call or not: invocations and returns to idle are not
\* forced.
SpecLive ==
    /\ InitFaultRace
    /\ [][\E t \in Threads : Removing(t)]_vars
    /\ \A t \in Threads :
          /\ WF_vars(Running(t) /\ Removing(t))
          /\ SF_vars(LockFile(t))

\* C31: a release (or releasedir) of a non-null handle gives the handle's
\* reference back to the table exactly once, whatever its flush did: in the
\* step that ends the call the object's count drops by one and the handle is
\* no longer stored.
C31_ReleaseGivesBack ==
    [][\A t \in Threads :
          (/\ th[t].op = "release"
           /\ th[t].pc \in {"rl_flush", "rl_close"}
           /\ th'[t].pc = "done")
          => /\ table'[fh[th[t].slot].id].rc = table[fh[th[t].slot].id].rc - 1
             /\ fh'[th[t].slot].null]_vars

\* C32: when unlink or rmdir returns an error, every directory holds the
\* entries it held when the call began: a name that was found and taken out
\* is not lost by a failure that comes after.
C32_FailedRemoveKeepsName ==
    \A t \in Threads :
        (Returned(t, {"unlink", "rmdir"}) /\ th[t].ret.e # "OK")
        => \A id \in Ids : obj[id].entries = th[t].pre[id].entries

C34_ReadOnlyFrozen == [][readonly => obj' = obj]_vars

\* C35: no directory ever holds an entry with an empty name, so create, mkdir
\* and symlink on "/" add nothing; and unlink or rmdir of a path without
\* components returns -EPERM and leaves every object as it was.
C35_NoEmptyName ==
    /\ \A id \in Ids : \A e \in obj[id].entries : e.name # <<>>
    /\ \A t \in Threads :
          (Returned(t, {"unlink", "rmdir"}) /\ Canon(th[t].path) = <<>>)
          => th[t].ret = Err("EPERM") /\ obj = th[t].pre

\* C36: a time stamp whose tv_nsec is a multiple of 100 in [0, 10^9), with
\* tv_sec of either sign, comes back from unix_time_to_filetime followed by
\* filetime_to_unix_time as it went in, and what filetime_to_unix_time yields
\* has 0 <= tv_nsec < 10^9.
C36_TimeRoundTrip ==
    (host.k = "time" /\ host.pc = "back")
    => /\ host.out = host.t
       /\ host.out.tv_nsec >= 0
       /\ host.out.tv_nsec < 1000000000

\* C37: OSService::rename(a, b) is all or nothing: when it returns, b holds
\* what a held and a is gone; when it raises, a and b are what they were, so
\* a destination that existed is not lost.
C37_RenameAllOrNothing ==
    (host.k = "fs" /\ host.call.op = "rename")
    => LET a == host.call.a
           b == host.call.b
           pre == host.call.pre
       IN  IF host.call.raised = NoException
           THEN /\ host.fs[b] = pre[a]
                /\ a # b => host.fs[a] = "none"
           ELSE host.fs = pre

====
